---- MODULE Spec2Model ----
(***************************************************************************)
(* A model of tzero.py, the IRC channel timebox keeper: the retry wrapper  *)
(* of main(), the receive loop of _run(), the command router, the timebox  *)
(* commands and the two maintenance tasks.                                 *)
(*                                                                         *)
(* Text is modelled as a sequence of one-character strings, so that        *)
(* startswith, isdigit, int() and ' '.join are computed, not assumed.      *)
(* The ordered dict _ctx.state['timebox'] is a sequence of key/val pairs   *)
(* in insertion order.                                                     *)
(***************************************************************************)
EXTENDS Integers, Sequences, FiniteSets, TLC

VARIABLES
    timebox,      \* _ctx.state['timebox']: <<[key, val]>> in dict order
    retry_delay,  \* _ctx.retry_delay
    now,          \* the last value read from time.time()
    pc,           \* "start": main() is about to call _run()
                  \* "recv":  _run() waits for the next value of _recv()
                  \* "tick":  the line of this iteration is handled; the
                  \*          maintenance tasks and _write_state() are next
    sent,         \* the lines written to the socket by the last step
    evt,          \* what the last step was given (history)
    fails,        \* failed _run() calls since the last handled PING (history)
    slept,        \* the argument of the last time.sleep() of main() (history)
    wire          \* the socket and the generator _recv(): the bytes the
                  \* server sends (whole), how many were read (pos), where
                  \* this connection began (from), the buffer, the lines
                  \* split off and not yet yielded (pending), and the lines
                  \* yielded on this connection (yielded, history)

vars == <<timebox, retry_delay, now, pc, sent, evt, fails, slept, wire>>

----------------------------------------------------------------------------
(* Program constants.                                                      *)

InitialDelay == 1
MaxDelay == 3600
DefaultDuration == 30
MinDuration == 15
MaxDuration == 60
DurationStep == 5
SecondsPerMinute == 60
SecondsPerDay == 86400
RetentionDays == 2
max_timeboxes == 10
ThrottleDelay == 1
ChunkSize == 400
MaxStrDigits == 4300

----------------------------------------------------------------------------
(* Configuration (tzero.json): the values _run() is called with.           *)

nick == <<"t", "z", "e", "r", "o">>
Channel == <<"#", "t", "z">>
Lounge == <<"#", "b">>
channels == <<Channel, Lounge>>
prefix == <<",">>
blocked_words == { <<"s", "p", "a", "m">> }

----------------------------------------------------------------------------
(* Text helpers.                                                           *)

Min(a, b) == IF a <= b THEN a ELSE b

\* str.startswith
StartsWith(s, p) == Len(p) <= Len(s) /\ SubSeq(s, 1, Len(p)) = p

\* A character is written as itself when it is a printable ASCII character
\* or one of "\t", "\n", "\f", "\r", and by its code point ("U+00E9")
\* otherwise.

\* The decimal digits (str.isdecimal) of every script, from zero to nine:
\* the characters int() gives a value to.
DecimalDigits ==
    <<
      <<"0", "1", "2", "3", "4", "5", "6", "7", "8", "9">>,
      <<"U+0660", "U+0661", "U+0662", "U+0663", "U+0664", "U+0665",
         "U+0666", "U+0667", "U+0668", "U+0669">>,
      <<"U+06F0", "U+06F1", "U+06F2", "U+06F3", "U+06F4", "U+06F5",
         "U+06F6", "U+06F7", "U+06F8", "U+06F9">>,
      <<"U+07C0", "U+07C1", "U+07C2", "U+07C3", "U+07C4", "U+07C5",
         "U+07C6", "U+07C7", "U+07C8", "U+07C9">>,
      <<"U+0966", "U+0967", "U+0968", "U+0969", "U+096A", "U+096B",
         "U+096C", "U+096D", "U+096E", "U+096F">>,
      <<"U+09E6", "U+09E7", "U+09E8", "U+09E9", "U+09EA", "U+09EB",
         "U+09EC", "U+09ED", "U+09EE", "U+09EF">>,
      <<"U+0A66", "U+0A67", "U+0A68", "U+0A69", "U+0A6A", "U+0A6B",
         "U+0A6C", "U+0A6D", "U+0A6E", "U+0A6F">>,
      <<"U+0AE6", "U+0AE7", "U+0AE8", "U+0AE9", "U+0AEA", "U+0AEB",
         "U+0AEC", "U+0AED", "U+0AEE", "U+0AEF">>,
      <<"U+0B66", "U+0B67", "U+0B68", "U+0B69", "U+0B6A", "U+0B6B",
         "U+0B6C", "U+0B6D", "U+0B6E", "U+0B6F">>,
      <<"U+0BE6", "U+0BE7", "U+0BE8", "U+0BE9", "U+0BEA", "U+0BEB",
         "U+0BEC", "U+0BED", "U+0BEE", "U+0BEF">>,
      <<"U+0C66", "U+0C67", "U+0C68", "U+0C69", "U+0C6A", "U+0C6B",
         "U+0C6C", "U+0C6D", "U+0C6E", "U+0C6F">>,
      <<"U+0CE6", "U+0CE7", "U+0CE8", "U+0CE9", "U+0CEA", "U+0CEB",
         "U+0CEC", "U+0CED", "U+0CEE", "U+0CEF">>,
      <<"U+0D66", "U+0D67", "U+0D68", "U+0D69", "U+0D6A", "U+0D6B",
         "U+0D6C", "U+0D6D", "U+0D6E", "U+0D6F">>,
      <<"U+0DE6", "U+0DE7", "U+0DE8", "U+0DE9", "U+0DEA", "U+0DEB",
         "U+0DEC", "U+0DED", "U+0DEE", "U+0DEF">>,
      <<"U+0E50", "U+0E51", "U+0E52", "U+0E53", "U+0E54", "U+0E55",
         "U+0E56", "U+0E57", "U+0E58", "U+0E59">>,
      <<"U+0ED0", "U+0ED1", "U+0ED2", "U+0ED3", "U+0ED4", "U+0ED5",
         "U+0ED6", "U+0ED7", "U+0ED8", "U+0ED9">>,
      <<"U+0F20", "U+0F21", "U+0F22", "U+0F23", "U+0F24", "U+0F25",
         "U+0F26", "U+0F27", "U+0F28", "U+0F29">>,
      <<"U+1040", "U+1041", "U+1042", "U+1043", "U+1044", "U+1045",
         "U+1046", "U+1047", "U+1048", "U+1049">>,
      <<"U+1090", "U+1091", "U+1092", "U+1093", "U+1094", "U+1095",
         "U+1096", "U+1097", "U+1098", "U+1099">>,
      <<"U+17E0", "U+17E1", "U+17E2", "U+17E3", "U+17E4", "U+17E5",
         "U+17E6", "U+17E7", "U+17E8", "U+17E9">>,
      <<"U+1810", "U+1811", "U+1812", "U+1813", "U+1814", "U+1815",
         "U+1816", "U+1817", "U+1818", "U+1819">>,
      <<"U+1946", "U+1947", "U+1948", "U+1949", "U+194A", "U+194B",
         "U+194C", "U+194D", "U+194E", "U+194F">>,
      <<"U+19D0", "U+19D1", "U+19D2", "U+19D3", "U+19D4", "U+19D5",
         "U+19D6", "U+19D7", "U+19D8", "U+19D9">>,
      <<"U+1A80", "U+1A81", "U+1A82", "U+1A83", "U+1A84", "U+1A85",
         "U+1A86", "U+1A87", "U+1A88", "U+1A89">>,
      <<"U+1A90", "U+1A91", "U+1A92", "U+1A93", "U+1A94", "U+1A95",
         "U+1A96", "U+1A97", "U+1A98", "U+1A99">>,
      <<"U+1B50", "U+1B51", "U+1B52", "U+1B53", "U+1B54", "U+1B55",
         "U+1B56", "U+1B57", "U+1B58", "U+1B59">>,
      <<"U+1BB0", "U+1BB1", "U+1BB2", "U+1BB3", "U+1BB4", "U+1BB5",
         "U+1BB6", "U+1BB7", "U+1BB8", "U+1BB9">>,
      <<"U+1C40", "U+1C41", "U+1C42", "U+1C43", "U+1C44", "U+1C45",
         "U+1C46", "U+1C47", "U+1C48", "U+1C49">>,
      <<"U+1C50", "U+1C51", "U+1C52", "U+1C53", "U+1C54", "U+1C55",
         "U+1C56", "U+1C57", "U+1C58", "U+1C59">>,
      <<"U+A620", "U+A621", "U+A622", "U+A623", "U+A624", "U+A625",
         "U+A626", "U+A627", "U+A628", "U+A629">>,
      <<"U+A8D0", "U+A8D1", "U+A8D2", "U+A8D3", "U+A8D4", "U+A8D5",
         "U+A8D6", "U+A8D7", "U+A8D8", "U+A8D9">>,
      <<"U+A900", "U+A901", "U+A902", "U+A903", "U+A904", "U+A905",
         "U+A906", "U+A907", "U+A908", "U+A909">>,
      <<"U+A9D0", "U+A9D1", "U+A9D2", "U+A9D3", "U+A9D4", "U+A9D5",
         "U+A9D6", "U+A9D7", "U+A9D8", "U+A9D9">>,
      <<"U+A9F0", "U+A9F1", "U+A9F2", "U+A9F3", "U+A9F4", "U+A9F5",
         "U+A9F6", "U+A9F7", "U+A9F8", "U+A9F9">>,
      <<"U+AA50", "U+AA51", "U+AA52", "U+AA53", "U+AA54", "U+AA55",
         "U+AA56", "U+AA57", "U+AA58", "U+AA59">>,
      <<"U+ABF0", "U+ABF1", "U+ABF2", "U+ABF3", "U+ABF4", "U+ABF5",
         "U+ABF6", "U+ABF7", "U+ABF8", "U+ABF9">>,
      <<"U+FF10", "U+FF11", "U+FF12", "U+FF13", "U+FF14", "U+FF15",
         "U+FF16", "U+FF17", "U+FF18", "U+FF19">>,
      <<"U+104A0", "U+104A1", "U+104A2", "U+104A3", "U+104A4", "U+104A5",
         "U+104A6", "U+104A7", "U+104A8", "U+104A9">>,
      <<"U+10D30", "U+10D31", "U+10D32", "U+10D33", "U+10D34", "U+10D35",
         "U+10D36", "U+10D37", "U+10D38", "U+10D39">>,
      <<"U+11066", "U+11067", "U+11068", "U+11069", "U+1106A", "U+1106B",
         "U+1106C", "U+1106D", "U+1106E", "U+1106F">>,
      <<"U+110F0", "U+110F1", "U+110F2", "U+110F3", "U+110F4", "U+110F5",
         "U+110F6", "U+110F7", "U+110F8", "U+110F9">>,
      <<"U+11136", "U+11137", "U+11138", "U+11139", "U+1113A", "U+1113B",
         "U+1113C", "U+1113D", "U+1113E", "U+1113F">>,
      <<"U+111D0", "U+111D1", "U+111D2", "U+111D3", "U+111D4", "U+111D5",
         "U+111D6", "U+111D7", "U+111D8", "U+111D9">>,
      <<"U+112F0", "U+112F1", "U+112F2", "U+112F3", "U+112F4", "U+112F5",
         "U+112F6", "U+112F7", "U+112F8", "U+112F9">>,
      <<"U+11450", "U+11451", "U+11452", "U+11453", "U+11454", "U+11455",
         "U+11456", "U+11457", "U+11458", "U+11459">>,
      <<"U+114D0", "U+114D1", "U+114D2", "U+114D3", "U+114D4", "U+114D5",
         "U+114D6", "U+114D7", "U+114D8", "U+114D9">>,
      <<"U+11650", "U+11651", "U+11652", "U+11653", "U+11654", "U+11655",
         "U+11656", "U+11657", "U+11658", "U+11659">>,
      <<"U+116C0", "U+116C1", "U+116C2", "U+116C3", "U+116C4", "U+116C5",
         "U+116C6", "U+116C7", "U+116C8", "U+116C9">>,
      <<"U+11730", "U+11731", "U+11732", "U+11733", "U+11734", "U+11735",
         "U+11736", "U+11737", "U+11738", "U+11739">>,
      <<"U+118E0", "U+118E1", "U+118E2", "U+118E3", "U+118E4", "U+118E5",
         "U+118E6", "U+118E7", "U+118E8", "U+118E9">>,
      <<"U+11950", "U+11951", "U+11952", "U+11953", "U+11954", "U+11955",
         "U+11956", "U+11957", "U+11958", "U+11959">>,
      <<"U+11C50", "U+11C51", "U+11C52", "U+11C53", "U+11C54", "U+11C55",
         "U+11C56", "U+11C57", "U+11C58", "U+11C59">>,
      <<"U+11D50", "U+11D51", "U+11D52", "U+11D53", "U+11D54", "U+11D55",
         "U+11D56", "U+11D57", "U+11D58", "U+11D59">>,
      <<"U+11DA0", "U+11DA1", "U+11DA2", "U+11DA3", "U+11DA4", "U+11DA5",
         "U+11DA6", "U+11DA7", "U+11DA8", "U+11DA9">>,
      <<"U+16A60", "U+16A61", "U+16A62", "U+16A63", "U+16A64", "U+16A65",
         "U+16A66", "U+16A67", "U+16A68", "U+16A69">>,
      <<"U+16AC0", "U+16AC1", "U+16AC2", "U+16AC3", "U+16AC4", "U+16AC5",
         "U+16AC6", "U+16AC7", "U+16AC8", "U+16AC9">>,
      <<"U+16B50", "U+16B51", "U+16B52", "U+16B53", "U+16B54", "U+16B55",
         "U+16B56", "U+16B57", "U+16B58", "U+16B59">>,
      <<"U+1D7CE", "U+1D7CF", "U+1D7D0", "U+1D7D1", "U+1D7D2", "U+1D7D3",
         "U+1D7D4", "U+1D7D5", "U+1D7D6", "U+1D7D7">>,
      <<"U+1D7D8", "U+1D7D9", "U+1D7DA", "U+1D7DB", "U+1D7DC", "U+1D7DD",
         "U+1D7DE", "U+1D7DF", "U+1D7E0", "U+1D7E1">>,
      <<"U+1D7E2", "U+1D7E3", "U+1D7E4", "U+1D7E5", "U+1D7E6", "U+1D7E7",
         "U+1D7E8", "U+1D7E9", "U+1D7EA", "U+1D7EB">>,
      <<"U+1D7EC", "U+1D7ED", "U+1D7EE", "U+1D7EF", "U+1D7F0", "U+1D7F1",
         "U+1D7F2", "U+1D7F3", "U+1D7F4", "U+1D7F5">>,
      <<"U+1D7F6", "U+1D7F7", "U+1D7F8", "U+1D7F9", "U+1D7FA", "U+1D7FB",
         "U+1D7FC", "U+1D7FD", "U+1D7FE", "U+1D7FF">>,
      <<"U+1E140", "U+1E141", "U+1E142", "U+1E143", "U+1E144", "U+1E145",
         "U+1E146", "U+1E147", "U+1E148", "U+1E149">>,
      <<"U+1E2F0", "U+1E2F1", "U+1E2F2", "U+1E2F3", "U+1E2F4", "U+1E2F5",
         "U+1E2F6", "U+1E2F7", "U+1E2F8", "U+1E2F9">>,
      <<"U+1E950", "U+1E951", "U+1E952", "U+1E953", "U+1E954", "U+1E955",
         "U+1E956", "U+1E957", "U+1E958", "U+1E959">>,
      <<"U+1FBF0", "U+1FBF1", "U+1FBF2", "U+1FBF3", "U+1FBF4", "U+1FBF5",
         "U+1FBF6", "U+1FBF7", "U+1FBF8", "U+1FBF9">>
    >>

\* The characters that are digits (str.isdigit) and not decimal digits:
\* superscripts, subscripts, circled and parenthesized digits and the like.
OtherDigits ==
    {
      "U+00B2", "U+00B3", "U+00B9", "U+1369", "U+136A", "U+136B", "U+136C",
      "U+136D", "U+136E", "U+136F", "U+1370", "U+1371", "U+19DA", "U+2070",
      "U+2074", "U+2075", "U+2076", "U+2077", "U+2078", "U+2079", "U+2080",
      "U+2081", "U+2082", "U+2083", "U+2084", "U+2085", "U+2086", "U+2087",
      "U+2088", "U+2089", "U+2460", "U+2461", "U+2462", "U+2463", "U+2464",
      "U+2465", "U+2466", "U+2467", "U+2468", "U+2474", "U+2475", "U+2476",
      "U+2477", "U+2478", "U+2479", "U+247A", "U+247B", "U+247C", "U+2488",
      "U+2489", "U+248A", "U+248B", "U+248C", "U+248D", "U+248E", "U+248F",
      "U+2490", "U+24EA", "U+24F5", "U+24F6", "U+24F7", "U+24F8", "U+24F9",
      "U+24FA", "U+24FB", "U+24FC", "U+24FD", "U+24FF", "U+2776", "U+2777",
      "U+2778", "U+2779", "U+277A", "U+277B", "U+277C", "U+277D", "U+277E",
      "U+2780", "U+2781", "U+2782", "U+2783", "U+2784", "U+2785", "U+2786",
      "U+2787", "U+2788", "U+278A", "U+278B", "U+278C", "U+278D", "U+278E",
      "U+278F", "U+2790", "U+2791", "U+2792", "U+10A40", "U+10A41",
      "U+10A42", "U+10A43", "U+10E60", "U+10E61", "U+10E62", "U+10E63",
      "U+10E64", "U+10E65", "U+10E66", "U+10E67", "U+10E68", "U+11052",
      "U+11053", "U+11054", "U+11055", "U+11056", "U+11057", "U+11058",
      "U+11059", "U+1105A", "U+1F100", "U+1F101", "U+1F102", "U+1F103",
      "U+1F104", "U+1F105", "U+1F106", "U+1F107", "U+1F108", "U+1F109",
      "U+1F10A"
    }

\* the value int() gives a decimal digit
DigitValue ==
    [c \in UNION {{DecimalDigits[r][i] : i \in 1..10} : r \in DOMAIN DecimalDigits}
        |-> (CHOOSE i \in 1..10 :
                \E r \in DOMAIN DecimalDigits : DecimalDigits[r][i] = c) - 1]

\* the characters of which str.isdecimal and str.isdigit are true
Decimals == DOMAIN DigitValue
Digits == Decimals \cup OtherDigits

\* str.isdigit: non-empty and every character a digit of any script,
\* decimal or not
isdigit(s) == Len(s) > 0 /\ \A i \in 1..Len(s) : s[i] \in Digits

\* int(s) raises ValueError: a character of s is not a decimal digit, or s
\* has more characters than the interpreter converts (sys.int_info.
\* default_max_str_digits of CPython 3.11)
int_raises(s) ==
    \/ Len(s) > MaxStrDigits
    \/ \E i \in 1..Len(s) : s[i] \notin Decimals

\* the number of characters of str(n), n >= 0
RECURSIVE digits(_)
digits(n) == IF n < 10 THEN 1 ELSE 1 + digits(n \div 10)

\* int(s) of a string of decimal digits
RECURSIVE int(_)
int(s) == IF Len(s) = 0 THEN 0
          ELSE 10 * int(SubSeq(s, 1, Len(s) - 1)) + DigitValue[s[Len(s)]]

\* ' '.join(words)
RECURSIVE join(_)
join(words) == IF Len(words) = 0 THEN <<>>
               ELSE IF Len(words) = 1 THEN words[1]
               ELSE words[1] \o <<" ">> \o join(Tail(words))

\* a slip: seq[:n]
FirstN(seq, n) == IF Len(seq) <= n THEN seq ELSE SubSeq(seq, 1, n)

\* seq[-n:]
LastN(seq, n) == IF Len(seq) <= n THEN seq
                 ELSE SubSeq(seq, Len(seq) - n + 1, Len(seq))

\* del seq[-1]
Front(seq) == SubSeq(seq, 1, Len(seq) - 1)

Last(seq) == seq[Len(seq)]

----------------------------------------------------------------------------
(* The ordered dict _ctx.state['timebox'].                                 *)

Keys(tb) == { tb[i].key : i \in DOMAIN tb }

\* person in dict
Has(tb, person) == person \in Keys(tb)

\* dict[person]
Get(tb, person) == tb[CHOOSE i \in DOMAIN tb : tb[i].key = person].val

\* dict[person] = ledger: an existing key keeps its place, a new one goes last
Put(tb, person, ledger) ==
    IF Has(tb, person)
    THEN [i \in DOMAIN tb |->
            IF tb[i].key = person THEN [key |-> person, val |-> ledger]
            ELSE tb[i]]
    ELSE Append(tb, [key |-> person, val |-> ledger])

\* del dict[person]
Del(tb, person) == SelectSeq(tb, LAMBDA e : e.key # person)

----------------------------------------------------------------------------
(* Replies. A reply is its leading word ("Error: ", "Warning: " or none),  *)
(* its fixed text and the values formatted into it.                        *)

Msg(level, head, arg) == [level |-> level, head |-> head, arg |-> arg]

\* _format_timebox: the start is shown as hour and minute only; reply_to and
\* completed are not shown.
format_timebox(t) ==
    [person |-> t.person,
     hhmm |-> (t.start % SecondsPerDay) \div SecondsPerMinute,
     duration |-> t.duration,
     summary |-> t.summary]

\* The command registry of _set_up_commands, in dict order.
commands ==
    << <<"b", "e", "g", "i", "n">>,
       <<"c", "a", "n", "c", "e", "l">>,
       <<"d", "e", "l", "e", "t", "e">>,
       <<"h", "e", "l", "p">>,
       <<"l", "i", "s", "t">>,
       <<"r", "u", "n", "n", "i", "n", "g">>,
       <<"t", "i", "m", "e">> >>

begin == commands[1]
cancel == commands[2]
delete == commands[3]
help == commands[4]
list == commands[5]
running == commands[6]
time == commands[7]

\* a slip: begin is declared private too
decl_private_begin(c) == c \in {begin, help, list, running, time}

\* decl['private'] and decl['public']
decl_private(c) == c \in {help, list, running, time}
decl_public(c) == c \in {begin, cancel, delete, help, list, running, time}

\* a slip: only the full name of a command is found
find_command_exact(command) == SelectSeq(commands, LAMBDA c : c = command)

\* _find_command
find_command(command) == SelectSeq(commands, LAMBDA c : StartsWith(c, command))

\* _command_list: the names, each with the prefix, in the order given
command_list(names) == [i \in DOMAIN names |-> prefix \o names[i]]

\* _remove_prefix
remove_prefix(word) ==
    IF StartsWith(word, prefix)
    THEN SubSeq(word, Len(prefix) + 1, Len(word))
    ELSE word

\* The usage text of a command (the *_help functions). The one of help
\* lists the commands.
help_text(command) ==
    IF command = help
    THEN Msg("", "Usage: [COMMAND].  Available commands: ",
             <<prefix \o command>> \o command_list(commands))
    ELSE Msg("", "Usage: ", <<prefix \o command>>)
Error(m) == Msg("Error: ", m.head, m.arg)

\* What an action gives back: the store it leaves and its replies.
Result(tb, replies) == [state |-> tb, replies |-> replies, raised |-> FALSE]

\* An action that raises gives nothing back; the store is as it left it.
Throw(tb) == [state |-> tb, replies |-> <<>>, raised |-> TRUE]

----------------------------------------------------------------------------
(* The commands. Each is given the store and the clock reading it would    *)
(* take, and gives back the store it leaves and its replies.               *)

\* list.sort(key=start, reverse=True): stable, so equal starts keep their order
RECURSIVE sort_by_start_desc(_)
sort_by_start_desc(seq) ==
    IF Len(seq) <= 1 THEN seq
    ELSE LET rest == sort_by_start_desc(Tail(seq))
             x == Head(seq)
             before == SelectSeq(rest, LAMBDA y : y.start > x.start)
             after == SelectSeq(rest, LAMBDA y : y.start <= x.start)
         IN  before \o <<x>> \o after

\* a slip: the first record of the ledger is looked at, not the last
in_progress_first(tb, sender) ==
    Has(tb, sender) /\ ~Get(tb, sender)[1].completed

\* the test of lines 217-218: the sender has a ledger whose last record runs
in_progress(tb, sender) == Has(tb, sender) /\ ~Last(Get(tb, sender)).completed

\* a slip: the test for a multiple of 5 is left out
duration_error_no_step(duration) ==
    IF duration < MinDuration
    THEN <<Msg("Error: ", "Duration must be at least 15 minutes.", <<>>)>>
    ELSE IF duration > MaxDuration
    THEN <<Msg("Error: ", "Duration must not exceed 60 minutes.", <<>>)>>
    ELSE <<>>

\* the three tests of lines 208-215: the reply that rejects the duration,
\* or none
duration_error(duration) ==
    IF duration < MinDuration
    THEN <<Msg("Error: ", "Duration must be at least 15 minutes.", <<>>)>>
    ELSE IF duration > MaxDuration
    THEN <<Msg("Error: ", "Duration must not exceed 60 minutes.", <<>>)>>
    ELSE IF duration % DurationStep # 0
    THEN <<Msg("Error: ", "Duration must be a multiple of 5 minutes.", <<>>)>>
    ELSE <<>>

\* a slip: the record keeps the sender where the target should be
timebox_to_sender(sender, reply_to, t, duration, summary) ==
    [person |-> sender,
     reply_to |-> sender,
     start |-> t,
     duration |-> duration,
     summary |-> summary,
     completed |-> FALSE]

\* the record of lines 227-234
timebox_record(sender, reply_to, t, duration, summary) ==
    [person |-> sender,
     reply_to |-> reply_to,
     start |-> t,
     duration |-> duration,
     summary |-> summary,
     completed |-> FALSE]

\* Command ,begin
begin_timebox(tb, t, sender, command, params, reply_to) ==
    IF Len(params) = 0 THEN Result(tb, <<Error(help_text(command))>>)
    ELSE IF isdigit(params[1]) /\ Len(params) = 1
    THEN Result(tb, <<Msg("Error: ",
                          "Duration must be followed by task summary.", <<>>)>>)
    ELSE IF isdigit(params[1]) /\ int_raises(params[1])
    THEN Throw(tb)
    ELSE
    LET duration == IF isdigit(params[1]) THEN int(params[1])
                    ELSE DefaultDuration
        summary == IF isdigit(params[1]) THEN join(Tail(params))
                   ELSE join(params)
    IN
    IF duration_error(duration) # <<>>
    THEN Result(tb, duration_error(duration))
    ELSE IF in_progress(tb, sender)
    THEN Result(tb, <<Msg("Error: ", "Another timebox is in progress: ",
                          <<format_timebox(Last(Get(tb, sender)))>>)>>)
    ELSE
    LET new == timebox_record(sender, reply_to, t, duration, summary)
        timeboxes == IF Has(tb, sender) THEN Get(tb, sender) ELSE <<>>
    IN  Result(Put(tb, sender, Append(timeboxes, new)),
               <<Msg("", "Started timebox: ", <<format_timebox(new)>>)>>)

\* a slip: the whole ledger of the person is removed
remove_ledger(tb, sender) == Del(tb, sender)

\* del timeboxes[-1], and del of the person when nothing is left
remove_last(tb, sender) ==
    IF Len(Get(tb, sender)) = 1 THEN Del(tb, sender)
    ELSE Put(tb, sender, Front(Get(tb, sender)))

\* Command ,cancel
cancel_timebox(tb, t, sender, command, params, reply_to) ==
    IF Len(params) > 0 THEN Result(tb, <<Error(help_text(command))>>)
    ELSE IF ~Has(tb, sender) \/ Last(Get(tb, sender)).completed
    THEN Result(tb, <<Msg("Error: ", "No running timeboxes found for ",
                          <<sender>>)>>)
    ELSE Result(remove_last(tb, sender),
                <<Msg("", "Cancelled running timebox: ",
                      <<format_timebox(Last(Get(tb, sender)))>>)>>)

\* a slip: the refusal of ,delete is worded like the one of ,begin
delete_refused_as_error(t) ==
    Msg("Error: ", "Another timebox is in progress: ", <<format_timebox(t)>>)

\* the reply of ,delete while a timebox runs (lines 280-283)
delete_refused(t) ==
    Msg("Warning: ", "Another timebox is in progress: ", <<format_timebox(t)>>)

\* Command ,delete
delete_timebox(tb, t, sender, command, params, reply_to) ==
    IF Len(params) > 0 THEN Result(tb, <<Error(help_text(command))>>)
    ELSE IF ~Has(tb, sender)
    THEN Result(tb, <<Msg("Error: ", "No timeboxes found for ", <<sender>>)>>)
    ELSE IF ~Last(Get(tb, sender)).completed
    THEN Result(tb, <<delete_refused(Last(Get(tb, sender)))>>)
    ELSE Result(remove_last(tb, sender),
                <<Msg("", "Deleted the last completed timebox: ",
                      <<format_timebox(Last(Get(tb, sender)))>>)>>)

\* The two errors of a name that is not exactly one command.
unrecognized == Msg("Error: ",
                    "Unrecognized command.  Available commands: ",
                    command_list(commands))
ambiguous(matches) == Msg("Error: ",
                          "Ambiguous command.  Matching commands: ",
                          command_list(matches))

\* Command ,help
help_(tb, t, sender, command, params, reply_to) ==
    IF Len(params) = 0 THEN Result(tb, <<help_text(command)>>)
    ELSE
    LET matches == find_command(remove_prefix(params[1]))
    IN  IF Len(matches) = 0 THEN Result(tb, <<unrecognized>>)
        ELSE IF Len(matches) > 1 THEN Result(tb, <<ambiguous(matches)>>)
        ELSE Result(tb, <<help_text(matches[1])>>)

\* Command ,list
list_completed_timeboxes(tb, t, sender, command, params, reply_to) ==
    IF Len(params) > 0 THEN Result(tb, <<Error(help_text(command))>>)
    ELSE IF ~Has(tb, sender)
    THEN Result(tb, <<Msg("", "No timeboxes found for ", <<sender>>)>>)
    ELSE
    LET completed == SelectSeq(Get(tb, sender), LAMBDA x : x.completed)
        sorted == sort_by_start_desc(completed)
    IN  IF Len(completed) = 0
        THEN Result(tb, <<Msg("", "No completed timeboxes found for ",
                              <<sender>>)>>)
        ELSE Result(tb, [i \in DOMAIN sorted |->
                            Msg("", "", <<format_timebox(sorted[i])>>)])

\* Command ,running
list_running_timeboxes(tb, t, sender, command, params, reply_to) ==
    IF Len(params) > 0 THEN Result(tb, <<Error(help_text(command))>>)
    ELSE
    LET found == SelectSeq(tb, LAMBDA e : Last(e.val).reply_to = reply_to
                                          /\ ~Last(e.val).completed)
        sorted == sort_by_start_desc([i \in DOMAIN found |-> Last(found[i].val)])
    IN  IF Len(found) = 0
        THEN Result(tb, <<Msg("", "No running timeboxes found for ",
                              <<reply_to>>)>>)
        ELSE Result(tb, [i \in DOMAIN sorted |->
                            Msg("", "", <<format_timebox(sorted[i])>>)])

\* Command ,time
current_time_(tb, t, sender, command, params, reply_to) ==
    IF Len(params) > 0 THEN Result(tb, <<Error(help_text(command))>>)
    ELSE Result(tb, <<Msg("", "%Y-%m-%d %H:%M:%S %Z", <<t>>)>>)

\* decl['action'] of the command, called
action_func(tb, t, sender, command, params, reply_to) ==
    CASE command = begin -> begin_timebox(tb, t, sender, command, params, reply_to)
      [] command = cancel -> cancel_timebox(tb, t, sender, command, params, reply_to)
      [] command = delete -> delete_timebox(tb, t, sender, command, params, reply_to)
      [] command = help -> help_(tb, t, sender, command, params, reply_to)
      [] command = list ->
            list_completed_timeboxes(tb, t, sender, command, params, reply_to)
      [] command = running ->
            list_running_timeboxes(tb, t, sender, command, params, reply_to)
      [] command = time -> current_time_(tb, t, sender, command, params, reply_to)

----------------------------------------------------------------------------
(* Sending. A step that sends is given a fault: 0 for a socket that works, *)
(* k > 0 for a socket whose k-th sendall of the step raises.               *)

\* the length of what _format_timebox gives: the person, " [", the start
\* as '%H:%M %Z' (9 characters), "] (", the duration, " min) ", the summary
format_len(f) ==
    Len(f.person) + 2 + 9 + 3 + digits(f.duration) + 6 + Len(f.summary)

\* the length of a usage text after 'Usage: ' and the name of the command;
\* the one of begin names the command twice more
usage_rest(command) ==
    CASE command = begin -> 261 + 2 * Len(prefix \o command)
      [] command = cancel -> 41
      [] command = delete -> 38
      [] command = list -> 175
      [] command = running -> 45
      [] command = time -> 25

\* len(message) of a reply: its leading word, its fixed text, its values
\* and the fixed text after them
text_len(m) ==
    Len(m.level) + Len(m.head) +
    CASE m.head \in {"Unrecognized command.  Available commands: ",
                     "Ambiguous command.  Matching commands: "} ->
            Len(join(m.arg)) + 1
      [] m.head = "Usage: [COMMAND].  Available commands: " ->
            Len(m.arg[1]) + 1 + Len(join(Tail(m.arg))) + 1
      [] m.head = "Usage: " ->
            Len(m.arg[1]) + usage_rest(remove_prefix(m.arg[1]))
      [] m.head = "Another timebox is in progress: " ->
            format_len(m.arg[1]) + (IF m.level = "Error: " THEN 86 ELSE 103)
      [] m.head \in {"Started timebox: ", "Cancelled running timebox: ",
                     "Deleted the last completed timebox: ",
                     "Completed timebox: ", ""} ->
            format_len(m.arg[1])
      [] m.head \in {"No running timeboxes found for ",
                     "No timeboxes found for ",
                     "No completed timeboxes found for "} ->
            Len(m.arg[1]) + 1
      [] m.head = "%Y-%m-%d %H:%M:%S %Z" -> 3
      [] OTHER -> 0

\* the characters at which str.splitlines ends a line
LineBreaks == {"\n", "\r", "U+000B", "\f", "U+001C", "U+001D", "U+001E",
               "U+0085", "U+2028", "U+2029"}

\* The values formatted into a reply that are taken from the line received,
\* each with the number of characters of the reply before it. The fixed
\* texts, the names of the commands, the prefix and the numbers hold no
\* line break.
values(m) ==
    LET h == Len(m.level) + Len(m.head)
    IN  CASE m.head \in {"Another timebox is in progress: ",
                         "Started timebox: ", "Cancelled running timebox: ",
                         "Deleted the last completed timebox: ",
                         "Completed timebox: ", ""} ->
                << [at |-> h, text |-> m.arg[1].person],
                   [at |-> h + format_len(m.arg[1]) - Len(m.arg[1].summary),
                    text |-> m.arg[1].summary] >>
          [] m.head \in {"No running timeboxes found for ",
                         "No timeboxes found for ",
                         "No completed timeboxes found for "} ->
                << [at |-> h, text |-> m.arg[1]] >>
          [] OTHER -> <<>>

\* the line breaks of a reply: where they are and what character each is
breaks(m) ==
    UNION { UNION { { [pos |-> vs[k].at + i, ch |-> vs[k].text[i]] :
                        i \in {j \in DOMAIN vs[k].text :
                                  vs[k].text[j] \in LineBreaks} } :
                    k \in DOMAIN vs } :
            vs \in {values(m)} }

\* The lengths of the lines str.splitlines gives for a text of `total`
\* characters with the line breaks brk, in order: a line ends before each
\* line break, "\r\n" is one line break, and what follows the last line
\* break is a line when it is not empty.
splitlines(total, brk) ==
    LET P == {b.pos : b \in brk}
        ch(p) == (CHOOSE b \in brk : b.pos = p).ch
        paired(p) == ch(p) = "\r" /\ p + 1 \in P /\ ch(p + 1) = "\n"
        T == {p \in P : ~paired(p)}
        first(p) == IF p - 1 \in P /\ paired(p - 1) THEN p - 1 ELSE p
        before(p) == IF \E q \in T : q < p
                     THEN CHOOSE q \in T : q < p /\ \A r \in T : r < p => r <= q
                     ELSE 0
        ends == [k \in 1..Cardinality(T) |->
                    CHOOSE p \in T : Cardinality({q \in T : q < p}) = k - 1]
        rest == total - before(total + 1)
    IN  [k \in DOMAIN ends |-> first(ends[k]) - 1 - before(ends[k])]
        \o (IF rest > 0 THEN <<rest>> ELSE <<>>)

\* the lengths of the lines of a reply (message.splitlines(), line 472)
lines_of(m) ==
    CHOOSE lens \in {IF brk = {} THEN (IF n > 0 THEN <<n>> ELSE <<>>)
                    ELSE splitlines(n, brk) :
                        brk \in {breaks(m)}, n \in {text_len(m)}} : TRUE

\* the number of chunks of at most 400 characters of one line
chunks_in(n) == (n + ChunkSize - 1) \div ChunkSize

\* the number of sends of a reply: the chunks of each of its lines
RECURSIVE chunks_of(_)
chunks_of(lens) == IF Len(lens) = 0 THEN 0
                   ELSE chunks_in(Head(lens)) + chunks_of(Tail(lens))
chunks(m) == chunks_of(lines_of(m))

\* 'PRIVMSG recipient :chunk', for chunk number `part` of the text, counted
\* through the lines of the text
Privmsg(recipient, text, part) ==
    [to |-> recipient, text |-> text, part |-> part]

\* _send_message: one send for each chunk of each line of the text, in
\* order (m is the text, taken once)
send_message(recipient, text) ==
    CHOOSE lines \in {[k \in 1..chunks(m) |-> Privmsg(recipient, m, k)] :
                        m \in {text}} : TRUE

\* a raw line to the server (_send)
Raw(text) == [to |-> <<>>, text |-> Msg("", text, <<>>), part |-> 1]

\* 'JOIN channel'
Join(channel) == [to |-> <<>>, text |-> Msg("", "JOIN", <<channel>>), part |-> 1]

\* the lines of several messages, in order
RECURSIVE concat(_)
concat(seqs) == IF Len(seqs) = 0 THEN <<>>
                ELSE Head(seqs) \o concat(Tail(seqs))

\* of messages sent one after the other, how many were begun, and how many
\* were out whole, when n lines had gone out and the next sendall raised
begun(msgs, n) ==
    Cardinality({j \in DOMAIN msgs : Len(concat(SubSeq(msgs, 1, j - 1))) <= n})
sent_whole(msgs, n) ==
    Cardinality({j \in DOMAIN msgs : Len(concat(SubSeq(msgs, 1, j))) <= n})

\* whether sending `lines` in order raises
Raises(lines, fault) == fault \in 1..Len(lines)

\* the lines that went out before the fault, if any
Delivered(lines, fault) ==
    IF Raises(lines, fault) THEN SubSeq(lines, 1, fault - 1) ELSE lines

----------------------------------------------------------------------------
(* The command router.                                                     *)

\* any(word in params for word in blocked_words)
is_blocked(params) ==
    \E word \in blocked_words : \E i \in DOMAIN params : params[i] = word

\* _process_command, up to the sending of the replies. ran is <<>> or the
\* one command whose action was called; raised tells that the action raised.
process_command(tb, t, sender, recipient, message) ==
    LET private == nick = recipient
        reply_to == IF private THEN sender ELSE recipient
        words == message
        command == remove_prefix(words[1])
        params == Tail(words)
        matches == find_command(command)
        refuse(msg) == [state |-> tb, replies |-> <<msg>>, raised |-> FALSE,
                        reply_to |-> reply_to, ran |-> <<>>]
    IN  IF Len(matches) = 0 THEN refuse(unrecognized)
        ELSE IF Len(matches) > 1 THEN refuse(ambiguous(matches))
        ELSE IF private /\ ~decl_private(matches[1])
        THEN refuse(Msg("Error: ", "This command must be sent in channel.", <<>>))
        ELSE IF ~private /\ ~decl_public(matches[1])
        THEN refuse(Msg("Error: ", "This command must be sent in private.", <<>>))
        ELSE IF is_blocked(params)
        THEN refuse(Msg("Error: ", "Parameters contain blocked word.", <<>>))
        ELSE LET r == action_func(tb, t, sender, matches[1], params, reply_to)
             IN  [state |-> r.state, replies |-> r.replies,
                  raised |-> r.raised,
                  reply_to |-> reply_to, ran |-> <<matches[1]>>]

----------------------------------------------------------------------------
(* The maintenance tasks.                                                  *)

\* the test of _complete_timeboxes on the last record of a ledger
is_due(last, current_time) ==
    ~last.completed
    /\ last.start + last.duration * SecondsPerMinute <= current_time

\* a slip: a record is marked only after its notification went out
marked_after_send(notes, fault) ==
    IF Raises(concat(notes), fault) THEN sent_whole(notes, fault - 1)
    ELSE Len(notes)

\* how many of the due records are marked: line 389 comes before the send of
\* line 391, so the record whose notification raises is marked too
marked_upto(notes, fault) ==
    IF Raises(concat(notes), fault) THEN begun(notes, fault - 1)
    ELSE Len(notes)

\* _complete_timeboxes: in dict order, each due record is marked and then
\* announced; a send that raises ends the task there.
complete_timeboxes(tb, current_time, fault) ==
    LET due == SelectSeq([i \in DOMAIN tb |-> i],
                         LAMBDA i : is_due(Last(tb[i].val), current_time))
        notes == [k \in DOMAIN due |->
                    send_message(Last(tb[due[k]].val).reply_to,
                                 Msg("", "Completed timebox: ",
                                     <<format_timebox(Last(tb[due[k]].val))>>))]
        marked == marked_upto(notes, fault)
        mark(ledger) ==
            [ledger EXCEPT ![Len(ledger)].completed = TRUE]
    IN  [state |-> [i \in DOMAIN tb |->
                      IF \E k \in 1..marked : due[k] = i
                      THEN [key |-> tb[i].key, val |-> mark(tb[i].val)]
                      ELSE tb[i]],
         sent |-> Delivered(concat(notes), fault),
         failed |-> Raises(concat(notes), fault)]

\* a slip: a record exactly 48 hours old is dropped
is_recent_strict(t, current_time) ==
    current_time < t.start + RetentionDays * SecondsPerDay

\* the test of _clean_timeboxes on one record
is_recent(t, current_time) ==
    current_time <= t.start + RetentionDays * SecondsPerDay

\* _clean_timeboxes
clean_timeboxes(tb, current_time) ==
    LET cleaned(ledger) ==
            LastN(SelectSeq(ledger, LAMBDA t : is_recent(t, current_time)),
                  max_timeboxes)
        all == [i \in DOMAIN tb |->
                  [key |-> tb[i].key, val |-> cleaned(tb[i].val)]]
    IN  SelectSeq(all, LAMBDA e : Len(e.val) > 0)

----------------------------------------------------------------------------
(* What _recv() yields, after _parse_line. form is "None" when no data came *)
(* within the poll timeout, "empty" for a line on which _parse_line raises, *)
(* and "message" for a parsed line; trailing is given as its words.         *)

Line(form, sender, cmd, middle, trailing) ==
    [form |-> form, sender |-> sender, cmd |-> cmd, middle |-> middle,
     trailing |-> trailing]

PING == <<"P", "I", "N", "G">>
PRIVMSG == <<"P", "R", "I", "V", "M", "S", "G">>

NoLine == Line("None", <<>>, <<>>, <<>>, <<>>)
EmptyLine == Line("empty", <<>>, <<>>, <<>>, <<>>)
Ping == Line("message", <<>>, PING, <<>>, << <<"i", "r", "c">> >>)
Notice == Line("message", <<>>, <<"N", "O", "T", "I", "C", "E">>, <<"*">>,
               << <<"h", "i">> >>)
Chat(sender, middle, words) == Line("message", sender, PRIVMSG, middle, words)

\* what a step records of itself
\* delay is retry_delay as the step found it; dropped is the number of
\* records a tick took out of the store; waits are the arguments of the
\* time.sleep() calls of the router, in order; steps are the calls of
\* lines 90-94 that the iteration made, in order.
Event(kind, line, ran, failed) ==
    [kind |-> kind, line |-> line, ran |-> ran, failed |-> failed,
     delay |-> retry_delay, dropped |-> 0, waits |-> <<>>, steps |-> <<>>]

\* the number of records in the store
Size(tb) == IF Len(tb) = 0 THEN 0
            ELSE LET RECURSIVE sum(_)
                     sum(i) == IF i = 0 THEN 0 ELSE Len(tb[i].val) + sum(i - 1)
                 IN  sum(Len(tb))

----------------------------------------------------------------------------
(* The clock. time.time() never goes back. While _run() waits in select()  *)
(* the clock moves on by a quarter of an hour or by the retention period;  *)
(* a run is cut off after hz.short quarters and hz.long periods.           *)

ShortStep == MinDuration * SecondsPerMinute
LongStep == RetentionDays * SecondsPerDay

\* The sleeps of the router take the clock further by seconds; a run is cut
\* off when they would take it more than MaxDrift seconds past a quarter.
MaxDrift == 2

CanAdvance(t, dt, hz) ==
    \/ dt = ShortStep /\ (t % LongStep) \div ShortStep < hz.short
    \/ dt = LongStep /\ t \div LongStep < hz.long

\* time passes while select() waits for the socket
Advance(hz) ==
    /\ pc = "recv"
    /\ \E dt \in {ShortStep, LongStep} :
        /\ CanAdvance(now, dt, hz)
        /\ now' = now + dt
    /\ sent' = <<>>
    /\ evt' = Event("clock", NoLine, <<>>, FALSE)
    /\ UNCHANGED <<timebox, retry_delay, pc, fails, slept, wire>>

----------------------------------------------------------------------------
(* main(): the state after start-up, and the except clause of the loop.    *)

\* two people of the channel
alice == <<"a", "l", "i", "c", "e">>
bob == <<"b", "o", "b">>

\* Stores that an earlier run of the program has left in the state file:
\* none, a timebox begun at the moment the earlier run ended, and a timebox
\* completed before that.
SavedRunning ==
    <<[key |-> alice,
       val |-> <<timebox_record(alice, Channel, 0, MinDuration, <<"a">>)>>]>>
SavedCompleted ==
    <<[key |-> bob,
       val |-> <<[timebox_record(bob, Channel, 0 - ShortStep, MinDuration,
                                 <<"a">>) EXCEPT !.completed = TRUE]>>]>>
SavedStores == {<<>>, SavedRunning, SavedCompleted}

\* a socket on which the server will send the bytes `whole`
Wire(whole) ==
    [whole |-> whole, pos |-> 0, from |-> 0, buffer |-> <<>>,
     pending |-> <<>>, yielded |-> <<>>]

\* The state after lines 32-40, for a server that sends one of `streams` and
\* a state file that holds one of `stores`: _read_state has loaded the store
\* and _write_state has written it back. When the configuration or the state
\* file cannot be read or written, main() ends with the exception before
\* the loop ("exit"): the store in memory is then the empty one _ctx is
\* made with (lines 20-22) when the exception came before the store was
\* loaded, and the one loaded when _write_state raised.
Start(streams, stores) ==
    /\ pc \in {"start", "exit"}
    /\ timebox \in (IF pc = "exit" THEN stores \cup {<<>>} ELSE stores)
    /\ retry_delay = InitialDelay
    /\ now = 0
    /\ sent = <<>>
    /\ evt = Event("init", NoLine, <<>>, pc = "exit")
    /\ fails = 0
    /\ slept = 0
    /\ \E whole \in streams : wire = Wire(whole)

Init == Start({<<>>}, SavedStores)

\* a slip: the delay is doubled without the cap
next_delay_uncapped(delay) == delay * 2

\* line 50: the delay after a failure
next_delay(delay) == Min(delay * 2, MaxDelay)

\* except Exception: sleep retry_delay, double it up to the cap, call _run
\* again. The sleep takes the clock at least retry_delay further.
Except(hz) ==
    \E dt \in {ShortStep, LongStep} :
        /\ fails < hz.fails
        /\ dt >= retry_delay
        /\ CanAdvance(now, dt, hz)
        /\ now' = now + dt
        /\ slept' = retry_delay
        /\ retry_delay' = next_delay(retry_delay)
        /\ fails' = fails + 1
        /\ pc' = "start"

----------------------------------------------------------------------------
(* _run().                                                                 *)

\* lines 63-69: the lines that authenticate, and a JOIN for each channel of
\* the configuration
registration ==
    <<Raw("PASS"), Raw("NICK"), Raw("USER")>>
    \o [i \in DOMAIN channels |-> Join(channels[i])]

\* a slip: the delay is reset as soon as the connection is made
Connect_resets ==
    /\ pc = "start"
    /\ pc' = "recv"
    /\ sent' = registration
    /\ evt' = Event("connect", NoLine, <<>>, FALSE)
    /\ slept' = 0
    /\ retry_delay' = InitialDelay
    /\ fails' = 0
    /\ wire' = [wire EXCEPT !.from = wire.pos, !.buffer = <<>>,
                            !.pending = <<>>, !.yielded = <<>>]
    /\ UNCHANGED <<timebox, now>>

\* connect, authenticate, join: the loop is entered
Connect ==
    /\ pc = "start"
    /\ pc' = "recv"
    /\ sent' = registration
    /\ evt' = Event("connect", NoLine, <<>>, FALSE)
    /\ slept' = 0
    /\ wire' = [wire EXCEPT !.from = wire.pos, !.buffer = <<>>,
                            !.pending = <<>>, !.yielded = <<>>]
    /\ UNCHANGED <<timebox, retry_delay, now, fails>>

\* create_connection or the TLS handshake raises (fault 0), or one of the
\* sends of lines 63-69 does: the lines before it have gone out
ConnectFail(faults, hz) ==
    /\ pc = "start"
    /\ Except(hz)
    /\ \E fault \in faults \cap 0..Len(registration) :
            sent' = SubSeq(registration, 1, fault - 1)
    /\ evt' = Event("connect", NoLine, <<>>, TRUE)
    /\ UNCHANGED <<timebox, wire>>

\* _recv() raises: a zero-length read, or a socket error
RecvFail(hz) ==
    /\ pc = "recv"
    /\ Except(hz)
    /\ sent' = <<>>
    /\ evt' = Event("recv", NoLine, <<>>, TRUE)
    /\ UNCHANGED <<timebox, wire>>

\* the iteration goes on to the tasks with nothing done for the line
Skip(line) ==
    /\ pc' = "tick"
    /\ sent' = <<>>
    /\ evt' = Event("line", line, <<>>, FALSE)
    /\ UNCHANGED <<timebox, retry_delay, now, fails, slept>>

\* an exception that nothing inside _run catches
Raise(line, hz) ==
    /\ Except(hz)
    /\ sent' = <<>>
    /\ evt' = Event("line", line, <<>>, TRUE)
    /\ UNCHANGED timebox

\* PING: the PONG goes out, then the delay is reset
Pong(line, fault, hz) ==
    IF Raises(<<Raw("PONG")>>, fault)
    THEN Raise(line, hz)
    ELSE /\ retry_delay' = InitialDelay
         /\ fails' = 0
         /\ pc' = "tick"
         /\ sent' = <<Raw("PONG")>>
         /\ evt' = Event("line", line, <<>>, FALSE)
         /\ UNCHANGED <<timebox, now, slept>>

\* lines 187-191: the sleeps of the reply loop after n replies went out.
\* throttle_delay is 0 when the first reply is sent and is set to 1 after
\* the sleep that follows each send.
throttle(n) == [i \in 1..n |-> IF i = 1 THEN 0 ELSE ThrottleDelay]

\* the sum of the numbers of a sequence
RECURSIVE Sum(_)
Sum(seq) == IF Len(seq) = 0 THEN 0 ELSE Head(seq) + Sum(Tail(seq))

\* the lines the router has to send for its replies, reply by reply
replies_out(reply_to, replies) ==
    [i \in DOMAIN replies |-> send_message(reply_to, replies[i])]

\* In the actions below a value that is used more than once is bound by
\* \E x \in {value}, which stands for LET x == value.

\* the sleeps of the router: none when no action was called, else one
\* after each reply that went out whole
waits_of(ran, msgs, fault) ==
    IF ran = <<>> THEN <<>>
    ELSE throttle(IF Raises(concat(msgs), fault)
                  THEN sent_whole(msgs, fault - 1)
                  ELSE Len(msgs))

\* PRIVMSG with the command prefix: the router, the sending of its replies
\* chunk by chunk, and its sleeps, which take the clock further. Every
\* exception, of the action or of a send, is caught and logged (lines
\* 87-88). A fault beyond the last send of the step is the same as none.
\* A run is cut off when the sleeps would take the clock more than MaxDrift
\* seconds off the quarters of an hour.
Route(line, faults) ==
    \E r \in {process_command(timebox, now, line.sender, line.middle,
                               line.trailing)} :
    \E msgs \in {replies_out(r.reply_to, r.replies)} :
    \E out \in {concat(msgs)} :
    \E fault \in faults \cap 0..Len(out) :
    \E waits \in {waits_of(r.ran, msgs, fault)} :
        /\ timebox' = r.state
        /\ sent' = Delivered(out, fault)
        /\ evt' = [Event("line", line, r.ran, r.raised \/ Raises(out, fault))
                   EXCEPT !.waits = waits]
        /\ pc' = "tick"
        /\ now' = now + Sum(waits)
        /\ now' % ShortStep <= MaxDrift
        /\ UNCHANGED <<retry_delay, fails, slept>>

\* One value of _recv() and its handling, lines 73-88.
Recv(lines, faults, hz) ==
    /\ pc = "recv"
    /\ UNCHANGED wire
    /\ \E line \in lines :
        CASE line.form = "None" -> Skip(line)
          [] line.form = "empty" -> Raise(line, hz)
          [] line.form = "message" /\ line.cmd = PING ->
                \E fault \in faults \cap 0..1 : Pong(line, fault, hz)
          [] line.form = "message" /\ line.cmd = PRIVMSG ->
                IF /\ line.sender # <<>> /\ line.middle # <<>>
                   /\ Len(line.trailing) > 0
                   /\ StartsWith(line.trailing[1], prefix)
                THEN Route(line, faults)
                ELSE Skip(line)
          [] OTHER -> Skip(line)

\* a slip: an error of _write_state is logged and the loop goes on
Tick_write_caught(faults, hz) ==
    /\ pc = "tick"
    /\ UNCHANGED wire
    /\ \E fault \in faults, written \in BOOLEAN :
        \E c \in {complete_timeboxes(timebox, now, fault)} :
        /\ fault = 0 \/ c.failed
        /\ timebox' = IF c.failed THEN c.state
                      ELSE clean_timeboxes(c.state, now)
        /\ sent' = c.sent
        /\ evt' = [Event(IF written THEN "tick" ELSE "write", NoLine, <<>>,
                         c.failed)
                   EXCEPT !.dropped = Size(timebox) - Size(timebox'),
                          !.steps = IF c.failed THEN <<"complete", "write">>
                                    ELSE <<"complete", "clean", "write">>]
        /\ pc' = "recv"
        /\ UNCHANGED <<retry_delay, now, fails, slept>>

\* The rest of the iteration, lines 89-94: the two tasks, then _write_state.
\* A send that raises in _complete_timeboxes is caught after _clean_timeboxes
\* was skipped; an error of _write_state leaves _run. A fault beyond the
\* last send of the step is the same as none.
Tick(faults, hz) ==
    /\ pc = "tick"
    /\ UNCHANGED wire
    /\ \E fault \in faults, written \in BOOLEAN :
        \E c \in {complete_timeboxes(timebox, now, fault)} :
        /\ fault = 0 \/ c.failed
        /\ timebox' = IF c.failed THEN c.state
                      ELSE clean_timeboxes(c.state, now)
        /\ sent' = c.sent
        /\ evt' = [Event(IF written THEN "tick" ELSE "write", NoLine, <<>>,
                         c.failed)
                   EXCEPT !.dropped = Size(timebox) - Size(timebox'),
                          !.steps = IF c.failed THEN <<"complete", "write">>
                                    ELSE <<"complete", "clean", "write">>]
        /\ IF written
           THEN /\ pc' = "recv"
                /\ UNCHANGED <<retry_delay, now, fails, slept>>
           ELSE Except(hz)

----------------------------------------------------------------------------
(* The wire: _recv() and _parse_line(), on bytes and characters. A byte is *)
(* an ASCII character, or "C3" or "A9": C3 A9 is U+00E9 in UTF-8.          *)

\* bytes.decode(errors='replace') of the bytes of one read: a lead byte with
\* no continuation byte after it in the same read, and a continuation byte
\* with no lead byte before it, each become U+FFFD
RECURSIVE decode(_)
decode(data) ==
    IF Len(data) = 0 THEN <<>>
    ELSE IF data[1] = "C3" /\ Len(data) >= 2 /\ data[2] = "A9"
    THEN <<"U+00E9">> \o decode(SubSeq(data, 3, Len(data)))
    ELSE IF data[1] \in {"C3", "A9"}
    THEN <<"U+FFFD">> \o decode(Tail(data))
    ELSE <<data[1]>> \o decode(Tail(data))

\* buffer.split('\r\n'): the pieces between the terminators, the last one
\* being the text after the last terminator
RECURSIVE split_crlf(_)
split_crlf(text) ==
    LET at == {i \in 1..(Len(text) - 1) : text[i] = "\r" /\ text[i + 1] = "\n"}
    IN  IF at = {} THEN <<text>>
        ELSE LET i == CHOOSE i \in at : \A j \in at : i <= j
             IN  <<SubSeq(text, 1, i - 1)>>
                 \o split_crlf(SubSeq(text, i + 2, Len(text)))

\* the characters str.split() and str.strip() take for white space
IsSpace(c) ==
    c \in {" ", "\t", "\n", "U+000B", "\f", "\r", "U+001C", "U+001D", "U+001E",
           "U+001F", "U+0085", "U+00A0", "U+1680", "U+2000", "U+2001",
           "U+2002", "U+2003", "U+2004", "U+2005", "U+2006", "U+2007",
           "U+2008", "U+2009", "U+200A", "U+2028", "U+2029", "U+202F",
           "U+205F", "U+3000"}

RECURSIVE lstrip(_)
lstrip(s) == IF Len(s) > 0 /\ IsSpace(s[1]) THEN lstrip(Tail(s)) ELSE s

RECURSIVE rstrip(_)
rstrip(s) == IF Len(s) > 0 /\ IsSpace(s[Len(s)]) THEN rstrip(Front(s)) ELSE s

strip(s) == lstrip(rstrip(s))

\* s.split(maxsplit=1): no word, the one word, or the first word and the
\* rest from its first character that is not white space
split_once(s) ==
    LET t == lstrip(s)
        gaps == {i \in 1..Len(t) : IsSpace(t[i])}
    IN  IF Len(t) = 0 THEN <<>>
        ELSE IF gaps = {} THEN <<t>>
        ELSE LET i == CHOOSE i \in gaps : \A j \in gaps : i <= j
                 rest == lstrip(SubSeq(t, i + 1, Len(t)))
             IN  IF Len(rest) = 0 THEN <<SubSeq(t, 1, i - 1)>>
                 ELSE <<SubSeq(t, 1, i - 1), rest>>

\* s.split(): the words of s
RECURSIVE split(_)
split(s) ==
    LET p == split_once(s)
    IN  IF Len(p) <= 1 THEN p ELSE <<p[1]>> \o split(p[2])

\* s.split(c, 1)
split_at(s, c) ==
    LET at == {i \in 1..Len(s) : s[i] = c}
    IN  IF at = {} THEN <<s>>
        ELSE LET i == CHOOSE i \in at : \A j \in at : i <= j
             IN  <<SubSeq(s, 1, i - 1), SubSeq(s, i + 1, Len(s))>>

\* The cased characters that str.upper changes, each with the characters it
\* gives for it (one to three: the sharp s gives two capital S).
Cased ==
    << <<"a", <<"A">>>>, <<"b", <<"B">>>>, <<"c", <<"C">>>>, <<"d", <<"D">>>>,
       <<"e", <<"E">>>>, <<"f", <<"F">>>>, <<"g", <<"G">>>>, <<"h", <<"H">>>>,
       <<"i", <<"I">>>>, <<"j", <<"J">>>>, <<"k", <<"K">>>>, <<"l", <<"L">>>>,
       <<"m", <<"M">>>>, <<"n", <<"N">>>>, <<"o", <<"O">>>>, <<"p", <<"P">>>>,
       <<"q", <<"Q">>>>, <<"r", <<"R">>>>, <<"s", <<"S">>>>, <<"t", <<"T">>>>,
       <<"u", <<"U">>>>, <<"v", <<"V">>>>, <<"w", <<"W">>>>, <<"x", <<"X">>>>,
       <<"y", <<"Y">>>>, <<"z", <<"Z">>>>, <<"U+00B5", <<"U+039C">>>>,
       <<"U+00DF", <<"S", "S">>>>, <<"U+00E0", <<"U+00C0">>>>,
       <<"U+00E1", <<"U+00C1">>>>, <<"U+00E2", <<"U+00C2">>>>,
       <<"U+00E3", <<"U+00C3">>>>, <<"U+00E4", <<"U+00C4">>>>,
       <<"U+00E5", <<"U+00C5">>>>, <<"U+00E6", <<"U+00C6">>>>,
       <<"U+00E7", <<"U+00C7">>>>, <<"U+00E8", <<"U+00C8">>>>,
       <<"U+00E9", <<"U+00C9">>>>, <<"U+00EA", <<"U+00CA">>>>,
       <<"U+00EB", <<"U+00CB">>>>, <<"U+00EC", <<"U+00CC">>>>,
       <<"U+00ED", <<"U+00CD">>>>, <<"U+00EE", <<"U+00CE">>>>,
       <<"U+00EF", <<"U+00CF">>>>, <<"U+00F0", <<"U+00D0">>>>,
       <<"U+00F1", <<"U+00D1">>>>, <<"U+00F2", <<"U+00D2">>>>,
       <<"U+00F3", <<"U+00D3">>>>, <<"U+00F4", <<"U+00D4">>>>,
       <<"U+00F5", <<"U+00D5">>>>, <<"U+00F6", <<"U+00D6">>>>,
       <<"U+00F8", <<"U+00D8">>>>, <<"U+00F9", <<"U+00D9">>>>,
       <<"U+00FA", <<"U+00DA">>>>, <<"U+00FB", <<"U+00DB">>>>,
       <<"U+00FC", <<"U+00DC">>>>, <<"U+00FD", <<"U+00DD">>>>,
       <<"U+00FE", <<"U+00DE">>>>, <<"U+00FF", <<"U+0178">>>>,
       <<"U+0101", <<"U+0100">>>>, <<"U+0103", <<"U+0102">>>>,
       <<"U+0105", <<"U+0104">>>>, <<"U+0107", <<"U+0106">>>>,
       <<"U+0109", <<"U+0108">>>>, <<"U+010B", <<"U+010A">>>>,
       <<"U+010D", <<"U+010C">>>>, <<"U+010F", <<"U+010E">>>>,
       <<"U+0111", <<"U+0110">>>>, <<"U+0113", <<"U+0112">>>>,
       <<"U+0115", <<"U+0114">>>>, <<"U+0117", <<"U+0116">>>>,
       <<"U+0119", <<"U+0118">>>>, <<"U+011B", <<"U+011A">>>>,
       <<"U+011D", <<"U+011C">>>>, <<"U+011F", <<"U+011E">>>>,
       <<"U+0121", <<"U+0120">>>>, <<"U+0123", <<"U+0122">>>>,
       <<"U+0125", <<"U+0124">>>>, <<"U+0127", <<"U+0126">>>>,
       <<"U+0129", <<"U+0128">>>>, <<"U+012B", <<"U+012A">>>>,
       <<"U+012D", <<"U+012C">>>>, <<"U+012F", <<"U+012E">>>>,
       <<"U+0131", <<"I">>>>, <<"U+0133", <<"U+0132">>>>,
       <<"U+0135", <<"U+0134">>>>, <<"U+0137", <<"U+0136">>>>,
       <<"U+013A", <<"U+0139">>>>, <<"U+013C", <<"U+013B">>>>,
       <<"U+013E", <<"U+013D">>>>, <<"U+0140", <<"U+013F">>>>,
       <<"U+0142", <<"U+0141">>>>, <<"U+0144", <<"U+0143">>>>,
       <<"U+0146", <<"U+0145">>>>, <<"U+0148", <<"U+0147">>>>,
       <<"U+0149", <<"U+02BC", "N">>>>, <<"U+014B", <<"U+014A">>>>,
       <<"U+014D", <<"U+014C">>>>, <<"U+014F", <<"U+014E">>>>,
       <<"U+0151", <<"U+0150">>>>, <<"U+0153", <<"U+0152">>>>,
       <<"U+0155", <<"U+0154">>>>, <<"U+0157", <<"U+0156">>>>,
       <<"U+0159", <<"U+0158">>>>, <<"U+015B", <<"U+015A">>>>,
       <<"U+015D", <<"U+015C">>>>, <<"U+015F", <<"U+015E">>>>,
       <<"U+0161", <<"U+0160">>>>, <<"U+0163", <<"U+0162">>>>,
       <<"U+0165", <<"U+0164">>>>, <<"U+0167", <<"U+0166">>>>,
       <<"U+0169", <<"U+0168">>>>, <<"U+016B", <<"U+016A">>>>,
       <<"U+016D", <<"U+016C">>>>, <<"U+016F", <<"U+016E">>>>,
       <<"U+0171", <<"U+0170">>>>, <<"U+0173", <<"U+0172">>>>,
       <<"U+0175", <<"U+0174">>>>, <<"U+0177", <<"U+0176">>>>,
       <<"U+017A", <<"U+0179">>>>, <<"U+017C", <<"U+017B">>>>,
       <<"U+017E", <<"U+017D">>>>, <<"U+017F", <<"S">>>>,
       <<"U+0180", <<"U+0243">>>>, <<"U+0183", <<"U+0182">>>>,
       <<"U+0185", <<"U+0184">>>>, <<"U+0188", <<"U+0187">>>>,
       <<"U+018C", <<"U+018B">>>>, <<"U+0192", <<"U+0191">>>>,
       <<"U+0195", <<"U+01F6">>>>, <<"U+0199", <<"U+0198">>>>,
       <<"U+019A", <<"U+023D">>>>, <<"U+019E", <<"U+0220">>>>,
       <<"U+01A1", <<"U+01A0">>>>, <<"U+01A3", <<"U+01A2">>>>,
       <<"U+01A5", <<"U+01A4">>>>, <<"U+01A8", <<"U+01A7">>>>,
       <<"U+01AD", <<"U+01AC">>>>, <<"U+01B0", <<"U+01AF">>>>,
       <<"U+01B4", <<"U+01B3">>>>, <<"U+01B6", <<"U+01B5">>>>,
       <<"U+01B9", <<"U+01B8">>>>, <<"U+01BD", <<"U+01BC">>>>,
       <<"U+01BF", <<"U+01F7">>>>, <<"U+01C5", <<"U+01C4">>>>,
       <<"U+01C6", <<"U+01C4">>>>, <<"U+01C8", <<"U+01C7">>>>,
       <<"U+01C9", <<"U+01C7">>>>, <<"U+01CB", <<"U+01CA">>>>,
       <<"U+01CC", <<"U+01CA">>>>, <<"U+01CE", <<"U+01CD">>>>,
       <<"U+01D0", <<"U+01CF">>>>, <<"U+01D2", <<"U+01D1">>>>,
       <<"U+01D4", <<"U+01D3">>>>, <<"U+01D6", <<"U+01D5">>>>,
       <<"U+01D8", <<"U+01D7">>>>, <<"U+01DA", <<"U+01D9">>>>,
       <<"U+01DC", <<"U+01DB">>>>, <<"U+01DD", <<"U+018E">>>>,
       <<"U+01DF", <<"U+01DE">>>>, <<"U+01E1", <<"U+01E0">>>>,
       <<"U+01E3", <<"U+01E2">>>>, <<"U+01E5", <<"U+01E4">>>>,
       <<"U+01E7", <<"U+01E6">>>>, <<"U+01E9", <<"U+01E8">>>>,
       <<"U+01EB", <<"U+01EA">>>>, <<"U+01ED", <<"U+01EC">>>>,
       <<"U+01EF", <<"U+01EE">>>>, <<"U+01F0", <<"J", "U+030C">>>>,
       <<"U+01F2", <<"U+01F1">>>>, <<"U+01F3", <<"U+01F1">>>>,
       <<"U+01F5", <<"U+01F4">>>>, <<"U+01F9", <<"U+01F8">>>>,
       <<"U+01FB", <<"U+01FA">>>>, <<"U+01FD", <<"U+01FC">>>>,
       <<"U+01FF", <<"U+01FE">>>>, <<"U+0201", <<"U+0200">>>>,
       <<"U+0203", <<"U+0202">>>>, <<"U+0205", <<"U+0204">>>>,
       <<"U+0207", <<"U+0206">>>>, <<"U+0209", <<"U+0208">>>>,
       <<"U+020B", <<"U+020A">>>>, <<"U+020D", <<"U+020C">>>>,
       <<"U+020F", <<"U+020E">>>>, <<"U+0211", <<"U+0210">>>>,
       <<"U+0213", <<"U+0212">>>>, <<"U+0215", <<"U+0214">>>>,
       <<"U+0217", <<"U+0216">>>>, <<"U+0219", <<"U+0218">>>>,
       <<"U+021B", <<"U+021A">>>>, <<"U+021D", <<"U+021C">>>>,
       <<"U+021F", <<"U+021E">>>>, <<"U+0223", <<"U+0222">>>>,
       <<"U+0225", <<"U+0224">>>>, <<"U+0227", <<"U+0226">>>>,
       <<"U+0229", <<"U+0228">>>>, <<"U+022B", <<"U+022A">>>>,
       <<"U+022D", <<"U+022C">>>>, <<"U+022F", <<"U+022E">>>>,
       <<"U+0231", <<"U+0230">>>>, <<"U+0233", <<"U+0232">>>>,
       <<"U+023C", <<"U+023B">>>>, <<"U+023F", <<"U+2C7E">>>>,
       <<"U+0240", <<"U+2C7F">>>>, <<"U+0242", <<"U+0241">>>>,
       <<"U+0247", <<"U+0246">>>>, <<"U+0249", <<"U+0248">>>>,
       <<"U+024B", <<"U+024A">>>>, <<"U+024D", <<"U+024C">>>>,
       <<"U+024F", <<"U+024E">>>>, <<"U+0250", <<"U+2C6F">>>>,
       <<"U+0251", <<"U+2C6D">>>>, <<"U+0252", <<"U+2C70">>>>,
       <<"U+0253", <<"U+0181">>>>, <<"U+0254", <<"U+0186">>>>,
       <<"U+0256", <<"U+0189">>>>, <<"U+0257", <<"U+018A">>>>,
       <<"U+0259", <<"U+018F">>>>, <<"U+025B", <<"U+0190">>>>,
       <<"U+025C", <<"U+A7AB">>>>, <<"U+0260", <<"U+0193">>>>,
       <<"U+0261", <<"U+A7AC">>>>, <<"U+0263", <<"U+0194">>>>,
       <<"U+0265", <<"U+A78D">>>>, <<"U+0266", <<"U+A7AA">>>>,
       <<"U+0268", <<"U+0197">>>>, <<"U+0269", <<"U+0196">>>>,
       <<"U+026A", <<"U+A7AE">>>>, <<"U+026B", <<"U+2C62">>>>,
       <<"U+026C", <<"U+A7AD">>>>, <<"U+026F", <<"U+019C">>>>,
       <<"U+0271", <<"U+2C6E">>>>, <<"U+0272", <<"U+019D">>>>,
       <<"U+0275", <<"U+019F">>>>, <<"U+027D", <<"U+2C64">>>>,
       <<"U+0280", <<"U+01A6">>>>, <<"U+0282", <<"U+A7C5">>>>,
       <<"U+0283", <<"U+01A9">>>>, <<"U+0287", <<"U+A7B1">>>>,
       <<"U+0288", <<"U+01AE">>>>, <<"U+0289", <<"U+0244">>>>,
       <<"U+028A", <<"U+01B1">>>>, <<"U+028B", <<"U+01B2">>>>,
       <<"U+028C", <<"U+0245">>>>, <<"U+0292", <<"U+01B7">>>>,
       <<"U+029D", <<"U+A7B2">>>>, <<"U+029E", <<"U+A7B0">>>>,
       <<"U+0345", <<"U+0399">>>>, <<"U+0371", <<"U+0370">>>>,
       <<"U+0373", <<"U+0372">>>>, <<"U+0377", <<"U+0376">>>>,
       <<"U+037B", <<"U+03FD">>>>, <<"U+037C", <<"U+03FE">>>>,
       <<"U+037D", <<"U+03FF">>>>, <<"U+0390", <<"U+0399", "U+0308", "U+0301">>>>,
       <<"U+03AC", <<"U+0386">>>>, <<"U+03AD", <<"U+0388">>>>,
       <<"U+03AE", <<"U+0389">>>>, <<"U+03AF", <<"U+038A">>>>,
       <<"U+03B0", <<"U+03A5", "U+0308", "U+0301">>>>, <<"U+03B1", <<"U+0391">>>>,
       <<"U+03B2", <<"U+0392">>>>, <<"U+03B3", <<"U+0393">>>>,
       <<"U+03B4", <<"U+0394">>>>, <<"U+03B5", <<"U+0395">>>>,
       <<"U+03B6", <<"U+0396">>>>, <<"U+03B7", <<"U+0397">>>>,
       <<"U+03B8", <<"U+0398">>>>, <<"U+03B9", <<"U+0399">>>>,
       <<"U+03BA", <<"U+039A">>>>, <<"U+03BB", <<"U+039B">>>>,
       <<"U+03BC", <<"U+039C">>>>, <<"U+03BD", <<"U+039D">>>>,
       <<"U+03BE", <<"U+039E">>>>, <<"U+03BF", <<"U+039F">>>>,
       <<"U+03C0", <<"U+03A0">>>>, <<"U+03C1", <<"U+03A1">>>>,
       <<"U+03C2", <<"U+03A3">>>>, <<"U+03C3", <<"U+03A3">>>>,
       <<"U+03C4", <<"U+03A4">>>>, <<"U+03C5", <<"U+03A5">>>>,
       <<"U+03C6", <<"U+03A6">>>>, <<"U+03C7", <<"U+03A7">>>>,
       <<"U+03C8", <<"U+03A8">>>>, <<"U+03C9", <<"U+03A9">>>>,
       <<"U+03CA", <<"U+03AA">>>>, <<"U+03CB", <<"U+03AB">>>>,
       <<"U+03CC", <<"U+038C">>>>, <<"U+03CD", <<"U+038E">>>>,
       <<"U+03CE", <<"U+038F">>>>, <<"U+03D0", <<"U+0392">>>>,
       <<"U+03D1", <<"U+0398">>>>, <<"U+03D5", <<"U+03A6">>>>,
       <<"U+03D6", <<"U+03A0">>>>, <<"U+03D7", <<"U+03CF">>>>,
       <<"U+03D9", <<"U+03D8">>>>, <<"U+03DB", <<"U+03DA">>>>,
       <<"U+03DD", <<"U+03DC">>>>, <<"U+03DF", <<"U+03DE">>>>,
       <<"U+03E1", <<"U+03E0">>>>, <<"U+03E3", <<"U+03E2">>>>,
       <<"U+03E5", <<"U+03E4">>>>, <<"U+03E7", <<"U+03E6">>>>,
       <<"U+03E9", <<"U+03E8">>>>, <<"U+03EB", <<"U+03EA">>>>,
       <<"U+03ED", <<"U+03EC">>>>, <<"U+03EF", <<"U+03EE">>>>,
       <<"U+03F0", <<"U+039A">>>>, <<"U+03F1", <<"U+03A1">>>>,
       <<"U+03F2", <<"U+03F9">>>>, <<"U+03F3", <<"U+037F">>>>,
       <<"U+03F5", <<"U+0395">>>>, <<"U+03F8", <<"U+03F7">>>>,
       <<"U+03FB", <<"U+03FA">>>>, <<"U+0430", <<"U+0410">>>>,
       <<"U+0431", <<"U+0411">>>>, <<"U+0432", <<"U+0412">>>>,
       <<"U+0433", <<"U+0413">>>>, <<"U+0434", <<"U+0414">>>>,
       <<"U+0435", <<"U+0415">>>>, <<"U+0436", <<"U+0416">>>>,
       <<"U+0437", <<"U+0417">>>>, <<"U+0438", <<"U+0418">>>>,
       <<"U+0439", <<"U+0419">>>>, <<"U+043A", <<"U+041A">>>>,
       <<"U+043B", <<"U+041B">>>>, <<"U+043C", <<"U+041C">>>>,
       <<"U+043D", <<"U+041D">>>>, <<"U+043E", <<"U+041E">>>>,
       <<"U+043F", <<"U+041F">>>>, <<"U+0440", <<"U+0420">>>>,
       <<"U+0441", <<"U+0421">>>>, <<"U+0442", <<"U+0422">>>>,
       <<"U+0443", <<"U+0423">>>>, <<"U+0444", <<"U+0424">>>>,
       <<"U+0445", <<"U+0425">>>>, <<"U+0446", <<"U+0426">>>>,
       <<"U+0447", <<"U+0427">>>>, <<"U+0448", <<"U+0428">>>>,
       <<"U+0449", <<"U+0429">>>>, <<"U+044A", <<"U+042A">>>>,
       <<"U+044B", <<"U+042B">>>>, <<"U+044C", <<"U+042C">>>>,
       <<"U+044D", <<"U+042D">>>>, <<"U+044E", <<"U+042E">>>>,
       <<"U+044F", <<"U+042F">>>>, <<"U+0450", <<"U+0400">>>>,
       <<"U+0451", <<"U+0401">>>>, <<"U+0452", <<"U+0402">>>>,
       <<"U+0453", <<"U+0403">>>>, <<"U+0454", <<"U+0404">>>>,
       <<"U+0455", <<"U+0405">>>>, <<"U+0456", <<"U+0406">>>>,
       <<"U+0457", <<"U+0407">>>>, <<"U+0458", <<"U+0408">>>>,
       <<"U+0459", <<"U+0409">>>>, <<"U+045A", <<"U+040A">>>>,
       <<"U+045B", <<"U+040B">>>>, <<"U+045C", <<"U+040C">>>>,
       <<"U+045D", <<"U+040D">>>>, <<"U+045E", <<"U+040E">>>>,
       <<"U+045F", <<"U+040F">>>>, <<"U+0461", <<"U+0460">>>>,
       <<"U+0463", <<"U+0462">>>>, <<"U+0465", <<"U+0464">>>>,
       <<"U+0467", <<"U+0466">>>>, <<"U+0469", <<"U+0468">>>>,
       <<"U+046B", <<"U+046A">>>>, <<"U+046D", <<"U+046C">>>>,
       <<"U+046F", <<"U+046E">>>>, <<"U+0471", <<"U+0470">>>>,
       <<"U+0473", <<"U+0472">>>>, <<"U+0475", <<"U+0474">>>>,
       <<"U+0477", <<"U+0476">>>>, <<"U+0479", <<"U+0478">>>>,
       <<"U+047B", <<"U+047A">>>>, <<"U+047D", <<"U+047C">>>>,
       <<"U+047F", <<"U+047E">>>>, <<"U+0481", <<"U+0480">>>>,
       <<"U+048B", <<"U+048A">>>>, <<"U+048D", <<"U+048C">>>>,
       <<"U+048F", <<"U+048E">>>>, <<"U+0491", <<"U+0490">>>>,
       <<"U+0493", <<"U+0492">>>>, <<"U+0495", <<"U+0494">>>>,
       <<"U+0497", <<"U+0496">>>>, <<"U+0499", <<"U+0498">>>>,
       <<"U+049B", <<"U+049A">>>>, <<"U+049D", <<"U+049C">>>>,
       <<"U+049F", <<"U+049E">>>>, <<"U+04A1", <<"U+04A0">>>>,
       <<"U+04A3", <<"U+04A2">>>>, <<"U+04A5", <<"U+04A4">>>>,
       <<"U+04A7", <<"U+04A6">>>>, <<"U+04A9", <<"U+04A8">>>>,
       <<"U+04AB", <<"U+04AA">>>>, <<"U+04AD", <<"U+04AC">>>>,
       <<"U+04AF", <<"U+04AE">>>>, <<"U+04B1", <<"U+04B0">>>>,
       <<"U+04B3", <<"U+04B2">>>>, <<"U+04B5", <<"U+04B4">>>>,
       <<"U+04B7", <<"U+04B6">>>>, <<"U+04B9", <<"U+04B8">>>>,
       <<"U+04BB", <<"U+04BA">>>>, <<"U+04BD", <<"U+04BC">>>>,
       <<"U+04BF", <<"U+04BE">>>>, <<"U+04C2", <<"U+04C1">>>>,
       <<"U+04C4", <<"U+04C3">>>>, <<"U+04C6", <<"U+04C5">>>>,
       <<"U+04C8", <<"U+04C7">>>>, <<"U+04CA", <<"U+04C9">>>>,
       <<"U+04CC", <<"U+04CB">>>>, <<"U+04CE", <<"U+04CD">>>>,
       <<"U+04CF", <<"U+04C0">>>>, <<"U+04D1", <<"U+04D0">>>>,
       <<"U+04D3", <<"U+04D2">>>>, <<"U+04D5", <<"U+04D4">>>>,
       <<"U+04D7", <<"U+04D6">>>>, <<"U+04D9", <<"U+04D8">>>>,
       <<"U+04DB", <<"U+04DA">>>>, <<"U+04DD", <<"U+04DC">>>>,
       <<"U+04DF", <<"U+04DE">>>>, <<"U+04E1", <<"U+04E0">>>>,
       <<"U+04E3", <<"U+04E2">>>>, <<"U+04E5", <<"U+04E4">>>>,
       <<"U+04E7", <<"U+04E6">>>>, <<"U+04E9", <<"U+04E8">>>>,
       <<"U+04EB", <<"U+04EA">>>>, <<"U+04ED", <<"U+04EC">>>>,
       <<"U+04EF", <<"U+04EE">>>>, <<"U+04F1", <<"U+04F0">>>>,
       <<"U+04F3", <<"U+04F2">>>>, <<"U+04F5", <<"U+04F4">>>>,
       <<"U+04F7", <<"U+04F6">>>>, <<"U+04F9", <<"U+04F8">>>>,
       <<"U+04FB", <<"U+04FA">>>>, <<"U+04FD", <<"U+04FC">>>>,
       <<"U+04FF", <<"U+04FE">>>>, <<"U+0501", <<"U+0500">>>>,
       <<"U+0503", <<"U+0502">>>>, <<"U+0505", <<"U+0504">>>>,
       <<"U+0507", <<"U+0506">>>>, <<"U+0509", <<"U+0508">>>>,
       <<"U+050B", <<"U+050A">>>>, <<"U+050D", <<"U+050C">>>>,
       <<"U+050F", <<"U+050E">>>>, <<"U+0511", <<"U+0510">>>>,
       <<"U+0513", <<"U+0512">>>>, <<"U+0515", <<"U+0514">>>>,
       <<"U+0517", <<"U+0516">>>>, <<"U+0519", <<"U+0518">>>>,
       <<"U+051B", <<"U+051A">>>>, <<"U+051D", <<"U+051C">>>>,
       <<"U+051F", <<"U+051E">>>>, <<"U+0521", <<"U+0520">>>>,
       <<"U+0523", <<"U+0522">>>>, <<"U+0525", <<"U+0524">>>>,
       <<"U+0527", <<"U+0526">>>>, <<"U+0529", <<"U+0528">>>>,
       <<"U+052B", <<"U+052A">>>>, <<"U+052D", <<"U+052C">>>>,
       <<"U+052F", <<"U+052E">>>>, <<"U+0561", <<"U+0531">>>>,
       <<"U+0562", <<"U+0532">>>>, <<"U+0563", <<"U+0533">>>>,
       <<"U+0564", <<"U+0534">>>>, <<"U+0565", <<"U+0535">>>>,
       <<"U+0566", <<"U+0536">>>>, <<"U+0567", <<"U+0537">>>>,
       <<"U+0568", <<"U+0538">>>>, <<"U+0569", <<"U+0539">>>>,
       <<"U+056A", <<"U+053A">>>>, <<"U+056B", <<"U+053B">>>>,
       <<"U+056C", <<"U+053C">>>>, <<"U+056D", <<"U+053D">>>>,
       <<"U+056E", <<"U+053E">>>>, <<"U+056F", <<"U+053F">>>>,
       <<"U+0570", <<"U+0540">>>>, <<"U+0571", <<"U+0541">>>>,
       <<"U+0572", <<"U+0542">>>>, <<"U+0573", <<"U+0543">>>>,
       <<"U+0574", <<"U+0544">>>>, <<"U+0575", <<"U+0545">>>>,
       <<"U+0576", <<"U+0546">>>>, <<"U+0577", <<"U+0547">>>>,
       <<"U+0578", <<"U+0548">>>>, <<"U+0579", <<"U+0549">>>>,
       <<"U+057A", <<"U+054A">>>>, <<"U+057B", <<"U+054B">>>>,
       <<"U+057C", <<"U+054C">>>>, <<"U+057D", <<"U+054D">>>>,
       <<"U+057E", <<"U+054E">>>>, <<"U+057F", <<"U+054F">>>>,
       <<"U+0580", <<"U+0550">>>>, <<"U+0581", <<"U+0551">>>>,
       <<"U+0582", <<"U+0552">>>>, <<"U+0583", <<"U+0553">>>>,
       <<"U+0584", <<"U+0554">>>>, <<"U+0585", <<"U+0555">>>>,
       <<"U+0586", <<"U+0556">>>>, <<"U+0587", <<"U+0535", "U+0552">>>>,
       <<"U+10D0", <<"U+1C90">>>>, <<"U+10D1", <<"U+1C91">>>>,
       <<"U+10D2", <<"U+1C92">>>>, <<"U+10D3", <<"U+1C93">>>>,
       <<"U+10D4", <<"U+1C94">>>>, <<"U+10D5", <<"U+1C95">>>>,
       <<"U+10D6", <<"U+1C96">>>>, <<"U+10D7", <<"U+1C97">>>>,
       <<"U+10D8", <<"U+1C98">>>>, <<"U+10D9", <<"U+1C99">>>>,
       <<"U+10DA", <<"U+1C9A">>>>, <<"U+10DB", <<"U+1C9B">>>>,
       <<"U+10DC", <<"U+1C9C">>>>, <<"U+10DD", <<"U+1C9D">>>>,
       <<"U+10DE", <<"U+1C9E">>>>, <<"U+10DF", <<"U+1C9F">>>>,
       <<"U+10E0", <<"U+1CA0">>>>, <<"U+10E1", <<"U+1CA1">>>>,
       <<"U+10E2", <<"U+1CA2">>>>, <<"U+10E3", <<"U+1CA3">>>>,
       <<"U+10E4", <<"U+1CA4">>>>, <<"U+10E5", <<"U+1CA5">>>>,
       <<"U+10E6", <<"U+1CA6">>>>, <<"U+10E7", <<"U+1CA7">>>>,
       <<"U+10E8", <<"U+1CA8">>>>, <<"U+10E9", <<"U+1CA9">>>>,
       <<"U+10EA", <<"U+1CAA">>>>, <<"U+10EB", <<"U+1CAB">>>>,
       <<"U+10EC", <<"U+1CAC">>>>, <<"U+10ED", <<"U+1CAD">>>>,
       <<"U+10EE", <<"U+1CAE">>>>, <<"U+10EF", <<"U+1CAF">>>>,
       <<"U+10F0", <<"U+1CB0">>>>, <<"U+10F1", <<"U+1CB1">>>>,
       <<"U+10F2", <<"U+1CB2">>>>, <<"U+10F3", <<"U+1CB3">>>>,
       <<"U+10F4", <<"U+1CB4">>>>, <<"U+10F5", <<"U+1CB5">>>>,
       <<"U+10F6", <<"U+1CB6">>>>, <<"U+10F7", <<"U+1CB7">>>>,
       <<"U+10F8", <<"U+1CB8">>>>, <<"U+10F9", <<"U+1CB9">>>>,
       <<"U+10FA", <<"U+1CBA">>>>, <<"U+10FD", <<"U+1CBD">>>>,
       <<"U+10FE", <<"U+1CBE">>>>, <<"U+10FF", <<"U+1CBF">>>>,
       <<"U+13F8", <<"U+13F0">>>>, <<"U+13F9", <<"U+13F1">>>>,
       <<"U+13FA", <<"U+13F2">>>>, <<"U+13FB", <<"U+13F3">>>>,
       <<"U+13FC", <<"U+13F4">>>>, <<"U+13FD", <<"U+13F5">>>>,
       <<"U+1C80", <<"U+0412">>>>, <<"U+1C81", <<"U+0414">>>>,
       <<"U+1C82", <<"U+041E">>>>, <<"U+1C83", <<"U+0421">>>>,
       <<"U+1C84", <<"U+0422">>>>, <<"U+1C85", <<"U+0422">>>>,
       <<"U+1C86", <<"U+042A">>>>, <<"U+1C87", <<"U+0462">>>>,
       <<"U+1C88", <<"U+A64A">>>>, <<"U+1D79", <<"U+A77D">>>>,
       <<"U+1D7D", <<"U+2C63">>>>, <<"U+1D8E", <<"U+A7C6">>>>,
       <<"U+1E01", <<"U+1E00">>>>, <<"U+1E03", <<"U+1E02">>>>,
       <<"U+1E05", <<"U+1E04">>>>, <<"U+1E07", <<"U+1E06">>>>,
       <<"U+1E09", <<"U+1E08">>>>, <<"U+1E0B", <<"U+1E0A">>>>,
       <<"U+1E0D", <<"U+1E0C">>>>, <<"U+1E0F", <<"U+1E0E">>>>,
       <<"U+1E11", <<"U+1E10">>>>, <<"U+1E13", <<"U+1E12">>>>,
       <<"U+1E15", <<"U+1E14">>>>, <<"U+1E17", <<"U+1E16">>>>,
       <<"U+1E19", <<"U+1E18">>>>, <<"U+1E1B", <<"U+1E1A">>>>,
       <<"U+1E1D", <<"U+1E1C">>>>, <<"U+1E1F", <<"U+1E1E">>>>,
       <<"U+1E21", <<"U+1E20">>>>, <<"U+1E23", <<"U+1E22">>>>,
       <<"U+1E25", <<"U+1E24">>>>, <<"U+1E27", <<"U+1E26">>>>,
       <<"U+1E29", <<"U+1E28">>>>, <<"U+1E2B", <<"U+1E2A">>>>,
       <<"U+1E2D", <<"U+1E2C">>>>, <<"U+1E2F", <<"U+1E2E">>>>,
       <<"U+1E31", <<"U+1E30">>>>, <<"U+1E33", <<"U+1E32">>>>,
       <<"U+1E35", <<"U+1E34">>>>, <<"U+1E37", <<"U+1E36">>>>,
       <<"U+1E39", <<"U+1E38">>>>, <<"U+1E3B", <<"U+1E3A">>>>,
       <<"U+1E3D", <<"U+1E3C">>>>, <<"U+1E3F", <<"U+1E3E">>>>,
       <<"U+1E41", <<"U+1E40">>>>, <<"U+1E43", <<"U+1E42">>>>,
       <<"U+1E45", <<"U+1E44">>>>, <<"U+1E47", <<"U+1E46">>>>,
       <<"U+1E49", <<"U+1E48">>>>, <<"U+1E4B", <<"U+1E4A">>>>,
       <<"U+1E4D", <<"U+1E4C">>>>, <<"U+1E4F", <<"U+1E4E">>>>,
       <<"U+1E51", <<"U+1E50">>>>, <<"U+1E53", <<"U+1E52">>>>,
       <<"U+1E55", <<"U+1E54">>>>, <<"U+1E57", <<"U+1E56">>>>,
       <<"U+1E59", <<"U+1E58">>>>, <<"U+1E5B", <<"U+1E5A">>>>,
       <<"U+1E5D", <<"U+1E5C">>>>, <<"U+1E5F", <<"U+1E5E">>>>,
       <<"U+1E61", <<"U+1E60">>>>, <<"U+1E63", <<"U+1E62">>>>,
       <<"U+1E65", <<"U+1E64">>>>, <<"U+1E67", <<"U+1E66">>>>,
       <<"U+1E69", <<"U+1E68">>>>, <<"U+1E6B", <<"U+1E6A">>>>,
       <<"U+1E6D", <<"U+1E6C">>>>, <<"U+1E6F", <<"U+1E6E">>>>,
       <<"U+1E71", <<"U+1E70">>>>, <<"U+1E73", <<"U+1E72">>>>,
       <<"U+1E75", <<"U+1E74">>>>, <<"U+1E77", <<"U+1E76">>>>,
       <<"U+1E79", <<"U+1E78">>>>, <<"U+1E7B", <<"U+1E7A">>>>,
       <<"U+1E7D", <<"U+1E7C">>>>, <<"U+1E7F", <<"U+1E7E">>>>,
       <<"U+1E81", <<"U+1E80">>>>, <<"U+1E83", <<"U+1E82">>>>,
       <<"U+1E85", <<"U+1E84">>>>, <<"U+1E87", <<"U+1E86">>>>,
       <<"U+1E89", <<"U+1E88">>>>, <<"U+1E8B", <<"U+1E8A">>>>,
       <<"U+1E8D", <<"U+1E8C">>>>, <<"U+1E8F", <<"U+1E8E">>>>,
       <<"U+1E91", <<"U+1E90">>>>, <<"U+1E93", <<"U+1E92">>>>,
       <<"U+1E95", <<"U+1E94">>>>, <<"U+1E96", <<"H", "U+0331">>>>,
       <<"U+1E97", <<"T", "U+0308">>>>, <<"U+1E98", <<"W", "U+030A">>>>,
       <<"U+1E99", <<"Y", "U+030A">>>>, <<"U+1E9A", <<"A", "U+02BE">>>>,
       <<"U+1E9B", <<"U+1E60">>>>, <<"U+1EA1", <<"U+1EA0">>>>,
       <<"U+1EA3", <<"U+1EA2">>>>, <<"U+1EA5", <<"U+1EA4">>>>,
       <<"U+1EA7", <<"U+1EA6">>>>, <<"U+1EA9", <<"U+1EA8">>>>,
       <<"U+1EAB", <<"U+1EAA">>>>, <<"U+1EAD", <<"U+1EAC">>>>,
       <<"U+1EAF", <<"U+1EAE">>>>, <<"U+1EB1", <<"U+1EB0">>>>,
       <<"U+1EB3", <<"U+1EB2">>>>, <<"U+1EB5", <<"U+1EB4">>>>,
       <<"U+1EB7", <<"U+1EB6">>>>, <<"U+1EB9", <<"U+1EB8">>>>,
       <<"U+1EBB", <<"U+1EBA">>>>, <<"U+1EBD", <<"U+1EBC">>>>,
       <<"U+1EBF", <<"U+1EBE">>>>, <<"U+1EC1", <<"U+1EC0">>>>,
       <<"U+1EC3", <<"U+1EC2">>>>, <<"U+1EC5", <<"U+1EC4">>>>,
       <<"U+1EC7", <<"U+1EC6">>>>, <<"U+1EC9", <<"U+1EC8">>>>,
       <<"U+1ECB", <<"U+1ECA">>>>, <<"U+1ECD", <<"U+1ECC">>>>,
       <<"U+1ECF", <<"U+1ECE">>>>, <<"U+1ED1", <<"U+1ED0">>>>,
       <<"U+1ED3", <<"U+1ED2">>>>, <<"U+1ED5", <<"U+1ED4">>>>,
       <<"U+1ED7", <<"U+1ED6">>>>, <<"U+1ED9", <<"U+1ED8">>>>,
       <<"U+1EDB", <<"U+1EDA">>>>, <<"U+1EDD", <<"U+1EDC">>>>,
       <<"U+1EDF", <<"U+1EDE">>>>, <<"U+1EE1", <<"U+1EE0">>>>,
       <<"U+1EE3", <<"U+1EE2">>>>, <<"U+1EE5", <<"U+1EE4">>>>,
       <<"U+1EE7", <<"U+1EE6">>>>, <<"U+1EE9", <<"U+1EE8">>>>,
       <<"U+1EEB", <<"U+1EEA">>>>, <<"U+1EED", <<"U+1EEC">>>>,
       <<"U+1EEF", <<"U+1EEE">>>>, <<"U+1EF1", <<"U+1EF0">>>>,
       <<"U+1EF3", <<"U+1EF2">>>>, <<"U+1EF5", <<"U+1EF4">>>>,
       <<"U+1EF7", <<"U+1EF6">>>>, <<"U+1EF9", <<"U+1EF8">>>>,
       <<"U+1EFB", <<"U+1EFA">>>>, <<"U+1EFD", <<"U+1EFC">>>>,
       <<"U+1EFF", <<"U+1EFE">>>>, <<"U+1F00", <<"U+1F08">>>>,
       <<"U+1F01", <<"U+1F09">>>>, <<"U+1F02", <<"U+1F0A">>>>,
       <<"U+1F03", <<"U+1F0B">>>>, <<"U+1F04", <<"U+1F0C">>>>,
       <<"U+1F05", <<"U+1F0D">>>>, <<"U+1F06", <<"U+1F0E">>>>,
       <<"U+1F07", <<"U+1F0F">>>>, <<"U+1F10", <<"U+1F18">>>>,
       <<"U+1F11", <<"U+1F19">>>>, <<"U+1F12", <<"U+1F1A">>>>,
       <<"U+1F13", <<"U+1F1B">>>>, <<"U+1F14", <<"U+1F1C">>>>,
       <<"U+1F15", <<"U+1F1D">>>>, <<"U+1F20", <<"U+1F28">>>>,
       <<"U+1F21", <<"U+1F29">>>>, <<"U+1F22", <<"U+1F2A">>>>,
       <<"U+1F23", <<"U+1F2B">>>>, <<"U+1F24", <<"U+1F2C">>>>,
       <<"U+1F25", <<"U+1F2D">>>>, <<"U+1F26", <<"U+1F2E">>>>,
       <<"U+1F27", <<"U+1F2F">>>>, <<"U+1F30", <<"U+1F38">>>>,
       <<"U+1F31", <<"U+1F39">>>>, <<"U+1F32", <<"U+1F3A">>>>,
       <<"U+1F33", <<"U+1F3B">>>>, <<"U+1F34", <<"U+1F3C">>>>,
       <<"U+1F35", <<"U+1F3D">>>>, <<"U+1F36", <<"U+1F3E">>>>,
       <<"U+1F37", <<"U+1F3F">>>>, <<"U+1F40", <<"U+1F48">>>>,
       <<"U+1F41", <<"U+1F49">>>>, <<"U+1F42", <<"U+1F4A">>>>,
       <<"U+1F43", <<"U+1F4B">>>>, <<"U+1F44", <<"U+1F4C">>>>,
       <<"U+1F45", <<"U+1F4D">>>>, <<"U+1F50", <<"U+03A5", "U+0313">>>>,
       <<"U+1F51", <<"U+1F59">>>>, <<"U+1F52", <<"U+03A5", "U+0313", "U+0300">>>>,
       <<"U+1F53", <<"U+1F5B">>>>, <<"U+1F54", <<"U+03A5", "U+0313", "U+0301">>>>,
       <<"U+1F55", <<"U+1F5D">>>>, <<"U+1F56", <<"U+03A5", "U+0313", "U+0342">>>>,
       <<"U+1F57", <<"U+1F5F">>>>, <<"U+1F60", <<"U+1F68">>>>,
       <<"U+1F61", <<"U+1F69">>>>, <<"U+1F62", <<"U+1F6A">>>>,
       <<"U+1F63", <<"U+1F6B">>>>, <<"U+1F64", <<"U+1F6C">>>>,
       <<"U+1F65", <<"U+1F6D">>>>, <<"U+1F66", <<"U+1F6E">>>>,
       <<"U+1F67", <<"U+1F6F">>>>, <<"U+1F70", <<"U+1FBA">>>>,
       <<"U+1F71", <<"U+1FBB">>>>, <<"U+1F72", <<"U+1FC8">>>>,
       <<"U+1F73", <<"U+1FC9">>>>, <<"U+1F74", <<"U+1FCA">>>>,
       <<"U+1F75", <<"U+1FCB">>>>, <<"U+1F76", <<"U+1FDA">>>>,
       <<"U+1F77", <<"U+1FDB">>>>, <<"U+1F78", <<"U+1FF8">>>>,
       <<"U+1F79", <<"U+1FF9">>>>, <<"U+1F7A", <<"U+1FEA">>>>,
       <<"U+1F7B", <<"U+1FEB">>>>, <<"U+1F7C", <<"U+1FFA">>>>,
       <<"U+1F7D", <<"U+1FFB">>>>, <<"U+1F80", <<"U+1F08", "U+0399">>>>,
       <<"U+1F81", <<"U+1F09", "U+0399">>>>, <<"U+1F82", <<"U+1F0A", "U+0399">>>>,
       <<"U+1F83", <<"U+1F0B", "U+0399">>>>, <<"U+1F84", <<"U+1F0C", "U+0399">>>>,
       <<"U+1F85", <<"U+1F0D", "U+0399">>>>, <<"U+1F86", <<"U+1F0E", "U+0399">>>>,
       <<"U+1F87", <<"U+1F0F", "U+0399">>>>, <<"U+1F88", <<"U+1F08", "U+0399">>>>,
       <<"U+1F89", <<"U+1F09", "U+0399">>>>, <<"U+1F8A", <<"U+1F0A", "U+0399">>>>,
       <<"U+1F8B", <<"U+1F0B", "U+0399">>>>, <<"U+1F8C", <<"U+1F0C", "U+0399">>>>,
       <<"U+1F8D", <<"U+1F0D", "U+0399">>>>, <<"U+1F8E", <<"U+1F0E", "U+0399">>>>,
       <<"U+1F8F", <<"U+1F0F", "U+0399">>>>, <<"U+1F90", <<"U+1F28", "U+0399">>>>,
       <<"U+1F91", <<"U+1F29", "U+0399">>>>, <<"U+1F92", <<"U+1F2A", "U+0399">>>>,
       <<"U+1F93", <<"U+1F2B", "U+0399">>>>, <<"U+1F94", <<"U+1F2C", "U+0399">>>>,
       <<"U+1F95", <<"U+1F2D", "U+0399">>>>, <<"U+1F96", <<"U+1F2E", "U+0399">>>>,
       <<"U+1F97", <<"U+1F2F", "U+0399">>>>, <<"U+1F98", <<"U+1F28", "U+0399">>>>,
       <<"U+1F99", <<"U+1F29", "U+0399">>>>, <<"U+1F9A", <<"U+1F2A", "U+0399">>>>,
       <<"U+1F9B", <<"U+1F2B", "U+0399">>>>, <<"U+1F9C", <<"U+1F2C", "U+0399">>>>,
       <<"U+1F9D", <<"U+1F2D", "U+0399">>>>, <<"U+1F9E", <<"U+1F2E", "U+0399">>>>,
       <<"U+1F9F", <<"U+1F2F", "U+0399">>>>, <<"U+1FA0", <<"U+1F68", "U+0399">>>>,
       <<"U+1FA1", <<"U+1F69", "U+0399">>>>, <<"U+1FA2", <<"U+1F6A", "U+0399">>>>,
       <<"U+1FA3", <<"U+1F6B", "U+0399">>>>, <<"U+1FA4", <<"U+1F6C", "U+0399">>>>,
       <<"U+1FA5", <<"U+1F6D", "U+0399">>>>, <<"U+1FA6", <<"U+1F6E", "U+0399">>>>,
       <<"U+1FA7", <<"U+1F6F", "U+0399">>>>, <<"U+1FA8", <<"U+1F68", "U+0399">>>>,
       <<"U+1FA9", <<"U+1F69", "U+0399">>>>, <<"U+1FAA", <<"U+1F6A", "U+0399">>>>,
       <<"U+1FAB", <<"U+1F6B", "U+0399">>>>, <<"U+1FAC", <<"U+1F6C", "U+0399">>>>,
       <<"U+1FAD", <<"U+1F6D", "U+0399">>>>, <<"U+1FAE", <<"U+1F6E", "U+0399">>>>,
       <<"U+1FAF", <<"U+1F6F", "U+0399">>>>, <<"U+1FB0", <<"U+1FB8">>>>,
       <<"U+1FB1", <<"U+1FB9">>>>, <<"U+1FB2", <<"U+1FBA", "U+0399">>>>,
       <<"U+1FB3", <<"U+0391", "U+0399">>>>, <<"U+1FB4", <<"U+0386", "U+0399">>>>,
       <<"U+1FB6", <<"U+0391", "U+0342">>>>,
       <<"U+1FB7", <<"U+0391", "U+0342", "U+0399">>>>,
       <<"U+1FBC", <<"U+0391", "U+0399">>>>, <<"U+1FBE", <<"U+0399">>>>,
       <<"U+1FC2", <<"U+1FCA", "U+0399">>>>, <<"U+1FC3", <<"U+0397", "U+0399">>>>,
       <<"U+1FC4", <<"U+0389", "U+0399">>>>, <<"U+1FC6", <<"U+0397", "U+0342">>>>,
       <<"U+1FC7", <<"U+0397", "U+0342", "U+0399">>>>,
       <<"U+1FCC", <<"U+0397", "U+0399">>>>, <<"U+1FD0", <<"U+1FD8">>>>,
       <<"U+1FD1", <<"U+1FD9">>>>, <<"U+1FD2", <<"U+0399", "U+0308", "U+0300">>>>,
       <<"U+1FD3", <<"U+0399", "U+0308", "U+0301">>>>,
       <<"U+1FD6", <<"U+0399", "U+0342">>>>,
       <<"U+1FD7", <<"U+0399", "U+0308", "U+0342">>>>, <<"U+1FE0", <<"U+1FE8">>>>,
       <<"U+1FE1", <<"U+1FE9">>>>, <<"U+1FE2", <<"U+03A5", "U+0308", "U+0300">>>>,
       <<"U+1FE3", <<"U+03A5", "U+0308", "U+0301">>>>,
       <<"U+1FE4", <<"U+03A1", "U+0313">>>>, <<"U+1FE5", <<"U+1FEC">>>>,
       <<"U+1FE6", <<"U+03A5", "U+0342">>>>,
       <<"U+1FE7", <<"U+03A5", "U+0308", "U+0342">>>>,
       <<"U+1FF2", <<"U+1FFA", "U+0399">>>>, <<"U+1FF3", <<"U+03A9", "U+0399">>>>,
       <<"U+1FF4", <<"U+038F", "U+0399">>>>, <<"U+1FF6", <<"U+03A9", "U+0342">>>>,
       <<"U+1FF7", <<"U+03A9", "U+0342", "U+0399">>>>,
       <<"U+1FFC", <<"U+03A9", "U+0399">>>>, <<"U+214E", <<"U+2132">>>>,
       <<"U+2170", <<"U+2160">>>>, <<"U+2171", <<"U+2161">>>>,
       <<"U+2172", <<"U+2162">>>>, <<"U+2173", <<"U+2163">>>>,
       <<"U+2174", <<"U+2164">>>>, <<"U+2175", <<"U+2165">>>>,
       <<"U+2176", <<"U+2166">>>>, <<"U+2177", <<"U+2167">>>>,
       <<"U+2178", <<"U+2168">>>>, <<"U+2179", <<"U+2169">>>>,
       <<"U+217A", <<"U+216A">>>>, <<"U+217B", <<"U+216B">>>>,
       <<"U+217C", <<"U+216C">>>>, <<"U+217D", <<"U+216D">>>>,
       <<"U+217E", <<"U+216E">>>>, <<"U+217F", <<"U+216F">>>>,
       <<"U+2184", <<"U+2183">>>>, <<"U+24D0", <<"U+24B6">>>>,
       <<"U+24D1", <<"U+24B7">>>>, <<"U+24D2", <<"U+24B8">>>>,
       <<"U+24D3", <<"U+24B9">>>>, <<"U+24D4", <<"U+24BA">>>>,
       <<"U+24D5", <<"U+24BB">>>>, <<"U+24D6", <<"U+24BC">>>>,
       <<"U+24D7", <<"U+24BD">>>>, <<"U+24D8", <<"U+24BE">>>>,
       <<"U+24D9", <<"U+24BF">>>>, <<"U+24DA", <<"U+24C0">>>>,
       <<"U+24DB", <<"U+24C1">>>>, <<"U+24DC", <<"U+24C2">>>>,
       <<"U+24DD", <<"U+24C3">>>>, <<"U+24DE", <<"U+24C4">>>>,
       <<"U+24DF", <<"U+24C5">>>>, <<"U+24E0", <<"U+24C6">>>>,
       <<"U+24E1", <<"U+24C7">>>>, <<"U+24E2", <<"U+24C8">>>>,
       <<"U+24E3", <<"U+24C9">>>>, <<"U+24E4", <<"U+24CA">>>>,
       <<"U+24E5", <<"U+24CB">>>>, <<"U+24E6", <<"U+24CC">>>>,
       <<"U+24E7", <<"U+24CD">>>>, <<"U+24E8", <<"U+24CE">>>>,
       <<"U+24E9", <<"U+24CF">>>>, <<"U+2C30", <<"U+2C00">>>>,
       <<"U+2C31", <<"U+2C01">>>>, <<"U+2C32", <<"U+2C02">>>>,
       <<"U+2C33", <<"U+2C03">>>>, <<"U+2C34", <<"U+2C04">>>>,
       <<"U+2C35", <<"U+2C05">>>>, <<"U+2C36", <<"U+2C06">>>>,
       <<"U+2C37", <<"U+2C07">>>>, <<"U+2C38", <<"U+2C08">>>>,
       <<"U+2C39", <<"U+2C09">>>>, <<"U+2C3A", <<"U+2C0A">>>>,
       <<"U+2C3B", <<"U+2C0B">>>>, <<"U+2C3C", <<"U+2C0C">>>>,
       <<"U+2C3D", <<"U+2C0D">>>>, <<"U+2C3E", <<"U+2C0E">>>>,
       <<"U+2C3F", <<"U+2C0F">>>>, <<"U+2C40", <<"U+2C10">>>>,
       <<"U+2C41", <<"U+2C11">>>>, <<"U+2C42", <<"U+2C12">>>>,
       <<"U+2C43", <<"U+2C13">>>>, <<"U+2C44", <<"U+2C14">>>>,
       <<"U+2C45", <<"U+2C15">>>>, <<"U+2C46", <<"U+2C16">>>>,
       <<"U+2C47", <<"U+2C17">>>>, <<"U+2C48", <<"U+2C18">>>>,
       <<"U+2C49", <<"U+2C19">>>>, <<"U+2C4A", <<"U+2C1A">>>>,
       <<"U+2C4B", <<"U+2C1B">>>>, <<"U+2C4C", <<"U+2C1C">>>>,
       <<"U+2C4D", <<"U+2C1D">>>>, <<"U+2C4E", <<"U+2C1E">>>>,
       <<"U+2C4F", <<"U+2C1F">>>>, <<"U+2C50", <<"U+2C20">>>>,
       <<"U+2C51", <<"U+2C21">>>>, <<"U+2C52", <<"U+2C22">>>>,
       <<"U+2C53", <<"U+2C23">>>>, <<"U+2C54", <<"U+2C24">>>>,
       <<"U+2C55", <<"U+2C25">>>>, <<"U+2C56", <<"U+2C26">>>>,
       <<"U+2C57", <<"U+2C27">>>>, <<"U+2C58", <<"U+2C28">>>>,
       <<"U+2C59", <<"U+2C29">>>>, <<"U+2C5A", <<"U+2C2A">>>>,
       <<"U+2C5B", <<"U+2C2B">>>>, <<"U+2C5C", <<"U+2C2C">>>>,
       <<"U+2C5D", <<"U+2C2D">>>>, <<"U+2C5E", <<"U+2C2E">>>>,
       <<"U+2C5F", <<"U+2C2F">>>>, <<"U+2C61", <<"U+2C60">>>>,
       <<"U+2C65", <<"U+023A">>>>, <<"U+2C66", <<"U+023E">>>>,
       <<"U+2C68", <<"U+2C67">>>>, <<"U+2C6A", <<"U+2C69">>>>,
       <<"U+2C6C", <<"U+2C6B">>>>, <<"U+2C73", <<"U+2C72">>>>,
       <<"U+2C76", <<"U+2C75">>>>, <<"U+2C81", <<"U+2C80">>>>,
       <<"U+2C83", <<"U+2C82">>>>, <<"U+2C85", <<"U+2C84">>>>,
       <<"U+2C87", <<"U+2C86">>>>, <<"U+2C89", <<"U+2C88">>>>,
       <<"U+2C8B", <<"U+2C8A">>>>, <<"U+2C8D", <<"U+2C8C">>>>,
       <<"U+2C8F", <<"U+2C8E">>>>, <<"U+2C91", <<"U+2C90">>>>,
       <<"U+2C93", <<"U+2C92">>>>, <<"U+2C95", <<"U+2C94">>>>,
       <<"U+2C97", <<"U+2C96">>>>, <<"U+2C99", <<"U+2C98">>>>,
       <<"U+2C9B", <<"U+2C9A">>>>, <<"U+2C9D", <<"U+2C9C">>>>,
       <<"U+2C9F", <<"U+2C9E">>>>, <<"U+2CA1", <<"U+2CA0">>>>,
       <<"U+2CA3", <<"U+2CA2">>>>, <<"U+2CA5", <<"U+2CA4">>>>,
       <<"U+2CA7", <<"U+2CA6">>>>, <<"U+2CA9", <<"U+2CA8">>>>,
       <<"U+2CAB", <<"U+2CAA">>>>, <<"U+2CAD", <<"U+2CAC">>>>,
       <<"U+2CAF", <<"U+2CAE">>>>, <<"U+2CB1", <<"U+2CB0">>>>,
       <<"U+2CB3", <<"U+2CB2">>>>, <<"U+2CB5", <<"U+2CB4">>>>,
       <<"U+2CB7", <<"U+2CB6">>>>, <<"U+2CB9", <<"U+2CB8">>>>,
       <<"U+2CBB", <<"U+2CBA">>>>, <<"U+2CBD", <<"U+2CBC">>>>,
       <<"U+2CBF", <<"U+2CBE">>>>, <<"U+2CC1", <<"U+2CC0">>>>,
       <<"U+2CC3", <<"U+2CC2">>>>, <<"U+2CC5", <<"U+2CC4">>>>,
       <<"U+2CC7", <<"U+2CC6">>>>, <<"U+2CC9", <<"U+2CC8">>>>,
       <<"U+2CCB", <<"U+2CCA">>>>, <<"U+2CCD", <<"U+2CCC">>>>,
       <<"U+2CCF", <<"U+2CCE">>>>, <<"U+2CD1", <<"U+2CD0">>>>,
       <<"U+2CD3", <<"U+2CD2">>>>, <<"U+2CD5", <<"U+2CD4">>>>,
       <<"U+2CD7", <<"U+2CD6">>>>, <<"U+2CD9", <<"U+2CD8">>>>,
       <<"U+2CDB", <<"U+2CDA">>>>, <<"U+2CDD", <<"U+2CDC">>>>,
       <<"U+2CDF", <<"U+2CDE">>>>, <<"U+2CE1", <<"U+2CE0">>>>,
       <<"U+2CE3", <<"U+2CE2">>>>, <<"U+2CEC", <<"U+2CEB">>>>,
       <<"U+2CEE", <<"U+2CED">>>>, <<"U+2CF3", <<"U+2CF2">>>>,
       <<"U+2D00", <<"U+10A0">>>>, <<"U+2D01", <<"U+10A1">>>>,
       <<"U+2D02", <<"U+10A2">>>>, <<"U+2D03", <<"U+10A3">>>>,
       <<"U+2D04", <<"U+10A4">>>>, <<"U+2D05", <<"U+10A5">>>>,
       <<"U+2D06", <<"U+10A6">>>>, <<"U+2D07", <<"U+10A7">>>>,
       <<"U+2D08", <<"U+10A8">>>>, <<"U+2D09", <<"U+10A9">>>>,
       <<"U+2D0A", <<"U+10AA">>>>, <<"U+2D0B", <<"U+10AB">>>>,
       <<"U+2D0C", <<"U+10AC">>>>, <<"U+2D0D", <<"U+10AD">>>>,
       <<"U+2D0E", <<"U+10AE">>>>, <<"U+2D0F", <<"U+10AF">>>>,
       <<"U+2D10", <<"U+10B0">>>>, <<"U+2D11", <<"U+10B1">>>>,
       <<"U+2D12", <<"U+10B2">>>>, <<"U+2D13", <<"U+10B3">>>>,
       <<"U+2D14", <<"U+10B4">>>>, <<"U+2D15", <<"U+10B5">>>>,
       <<"U+2D16", <<"U+10B6">>>>, <<"U+2D17", <<"U+10B7">>>>,
       <<"U+2D18", <<"U+10B8">>>>, <<"U+2D19", <<"U+10B9">>>>,
       <<"U+2D1A", <<"U+10BA">>>>, <<"U+2D1B", <<"U+10BB">>>>,
       <<"U+2D1C", <<"U+10BC">>>>, <<"U+2D1D", <<"U+10BD">>>>,
       <<"U+2D1E", <<"U+10BE">>>>, <<"U+2D1F", <<"U+10BF">>>>,
       <<"U+2D20", <<"U+10C0">>>>, <<"U+2D21", <<"U+10C1">>>>,
       <<"U+2D22", <<"U+10C2">>>>, <<"U+2D23", <<"U+10C3">>>>,
       <<"U+2D24", <<"U+10C4">>>>, <<"U+2D25", <<"U+10C5">>>>,
       <<"U+2D27", <<"U+10C7">>>>, <<"U+2D2D", <<"U+10CD">>>>,
       <<"U+A641", <<"U+A640">>>>, <<"U+A643", <<"U+A642">>>>,
       <<"U+A645", <<"U+A644">>>>, <<"U+A647", <<"U+A646">>>>,
       <<"U+A649", <<"U+A648">>>>, <<"U+A64B", <<"U+A64A">>>>,
       <<"U+A64D", <<"U+A64C">>>>, <<"U+A64F", <<"U+A64E">>>>,
       <<"U+A651", <<"U+A650">>>>, <<"U+A653", <<"U+A652">>>>,
       <<"U+A655", <<"U+A654">>>>, <<"U+A657", <<"U+A656">>>>,
       <<"U+A659", <<"U+A658">>>>, <<"U+A65B", <<"U+A65A">>>>,
       <<"U+A65D", <<"U+A65C">>>>, <<"U+A65F", <<"U+A65E">>>>,
       <<"U+A661", <<"U+A660">>>>, <<"U+A663", <<"U+A662">>>>,
       <<"U+A665", <<"U+A664">>>>, <<"U+A667", <<"U+A666">>>>,
       <<"U+A669", <<"U+A668">>>>, <<"U+A66B", <<"U+A66A">>>>,
       <<"U+A66D", <<"U+A66C">>>>, <<"U+A681", <<"U+A680">>>>,
       <<"U+A683", <<"U+A682">>>>, <<"U+A685", <<"U+A684">>>>,
       <<"U+A687", <<"U+A686">>>>, <<"U+A689", <<"U+A688">>>>,
       <<"U+A68B", <<"U+A68A">>>>, <<"U+A68D", <<"U+A68C">>>>,
       <<"U+A68F", <<"U+A68E">>>>, <<"U+A691", <<"U+A690">>>>,
       <<"U+A693", <<"U+A692">>>>, <<"U+A695", <<"U+A694">>>>,
       <<"U+A697", <<"U+A696">>>>, <<"U+A699", <<"U+A698">>>>,
       <<"U+A69B", <<"U+A69A">>>>, <<"U+A723", <<"U+A722">>>>,
       <<"U+A725", <<"U+A724">>>>, <<"U+A727", <<"U+A726">>>>,
       <<"U+A729", <<"U+A728">>>>, <<"U+A72B", <<"U+A72A">>>>,
       <<"U+A72D", <<"U+A72C">>>>, <<"U+A72F", <<"U+A72E">>>>,
       <<"U+A733", <<"U+A732">>>>, <<"U+A735", <<"U+A734">>>>,
       <<"U+A737", <<"U+A736">>>>, <<"U+A739", <<"U+A738">>>>,
       <<"U+A73B", <<"U+A73A">>>>, <<"U+A73D", <<"U+A73C">>>>,
       <<"U+A73F", <<"U+A73E">>>>, <<"U+A741", <<"U+A740">>>>,
       <<"U+A743", <<"U+A742">>>>, <<"U+A745", <<"U+A744">>>>,
       <<"U+A747", <<"U+A746">>>>, <<"U+A749", <<"U+A748">>>>,
       <<"U+A74B", <<"U+A74A">>>>, <<"U+A74D", <<"U+A74C">>>>,
       <<"U+A74F", <<"U+A74E">>>>, <<"U+A751", <<"U+A750">>>>,
       <<"U+A753", <<"U+A752">>>>, <<"U+A755", <<"U+A754">>>>,
       <<"U+A757", <<"U+A756">>>>, <<"U+A759", <<"U+A758">>>>,
       <<"U+A75B", <<"U+A75A">>>>, <<"U+A75D", <<"U+A75C">>>>,
       <<"U+A75F", <<"U+A75E">>>>, <<"U+A761", <<"U+A760">>>>,
       <<"U+A763", <<"U+A762">>>>, <<"U+A765", <<"U+A764">>>>,
       <<"U+A767", <<"U+A766">>>>, <<"U+A769", <<"U+A768">>>>,
       <<"U+A76B", <<"U+A76A">>>>, <<"U+A76D", <<"U+A76C">>>>,
       <<"U+A76F", <<"U+A76E">>>>, <<"U+A77A", <<"U+A779">>>>,
       <<"U+A77C", <<"U+A77B">>>>, <<"U+A77F", <<"U+A77E">>>>,
       <<"U+A781", <<"U+A780">>>>, <<"U+A783", <<"U+A782">>>>,
       <<"U+A785", <<"U+A784">>>>, <<"U+A787", <<"U+A786">>>>,
       <<"U+A78C", <<"U+A78B">>>>, <<"U+A791", <<"U+A790">>>>,
       <<"U+A793", <<"U+A792">>>>, <<"U+A794", <<"U+A7C4">>>>,
       <<"U+A797", <<"U+A796">>>>, <<"U+A799", <<"U+A798">>>>,
       <<"U+A79B", <<"U+A79A">>>>, <<"U+A79D", <<"U+A79C">>>>,
       <<"U+A79F", <<"U+A79E">>>>, <<"U+A7A1", <<"U+A7A0">>>>,
       <<"U+A7A3", <<"U+A7A2">>>>, <<"U+A7A5", <<"U+A7A4">>>>,
       <<"U+A7A7", <<"U+A7A6">>>>, <<"U+A7A9", <<"U+A7A8">>>>,
       <<"U+A7B5", <<"U+A7B4">>>>, <<"U+A7B7", <<"U+A7B6">>>>,
       <<"U+A7B9", <<"U+A7B8">>>>, <<"U+A7BB", <<"U+A7BA">>>>,
       <<"U+A7BD", <<"U+A7BC">>>>, <<"U+A7BF", <<"U+A7BE">>>>,
       <<"U+A7C1", <<"U+A7C0">>>>, <<"U+A7C3", <<"U+A7C2">>>>,
       <<"U+A7C8", <<"U+A7C7">>>>, <<"U+A7CA", <<"U+A7C9">>>>,
       <<"U+A7D1", <<"U+A7D0">>>>, <<"U+A7D7", <<"U+A7D6">>>>,
       <<"U+A7D9", <<"U+A7D8">>>>, <<"U+A7F6", <<"U+A7F5">>>>,
       <<"U+AB53", <<"U+A7B3">>>>, <<"U+AB70", <<"U+13A0">>>>,
       <<"U+AB71", <<"U+13A1">>>>, <<"U+AB72", <<"U+13A2">>>>,
       <<"U+AB73", <<"U+13A3">>>>, <<"U+AB74", <<"U+13A4">>>>,
       <<"U+AB75", <<"U+13A5">>>>, <<"U+AB76", <<"U+13A6">>>>,
       <<"U+AB77", <<"U+13A7">>>>, <<"U+AB78", <<"U+13A8">>>>,
       <<"U+AB79", <<"U+13A9">>>>, <<"U+AB7A", <<"U+13AA">>>>,
       <<"U+AB7B", <<"U+13AB">>>>, <<"U+AB7C", <<"U+13AC">>>>,
       <<"U+AB7D", <<"U+13AD">>>>, <<"U+AB7E", <<"U+13AE">>>>,
       <<"U+AB7F", <<"U+13AF">>>>, <<"U+AB80", <<"U+13B0">>>>,
       <<"U+AB81", <<"U+13B1">>>>, <<"U+AB82", <<"U+13B2">>>>,
       <<"U+AB83", <<"U+13B3">>>>, <<"U+AB84", <<"U+13B4">>>>,
       <<"U+AB85", <<"U+13B5">>>>, <<"U+AB86", <<"U+13B6">>>>,
       <<"U+AB87", <<"U+13B7">>>>, <<"U+AB88", <<"U+13B8">>>>,
       <<"U+AB89", <<"U+13B9">>>>, <<"U+AB8A", <<"U+13BA">>>>,
       <<"U+AB8B", <<"U+13BB">>>>, <<"U+AB8C", <<"U+13BC">>>>,
       <<"U+AB8D", <<"U+13BD">>>>, <<"U+AB8E", <<"U+13BE">>>>,
       <<"U+AB8F", <<"U+13BF">>>>, <<"U+AB90", <<"U+13C0">>>>,
       <<"U+AB91", <<"U+13C1">>>>, <<"U+AB92", <<"U+13C2">>>>,
       <<"U+AB93", <<"U+13C3">>>>, <<"U+AB94", <<"U+13C4">>>>,
       <<"U+AB95", <<"U+13C5">>>>, <<"U+AB96", <<"U+13C6">>>>,
       <<"U+AB97", <<"U+13C7">>>>, <<"U+AB98", <<"U+13C8">>>>,
       <<"U+AB99", <<"U+13C9">>>>, <<"U+AB9A", <<"U+13CA">>>>,
       <<"U+AB9B", <<"U+13CB">>>>, <<"U+AB9C", <<"U+13CC">>>>,
       <<"U+AB9D", <<"U+13CD">>>>, <<"U+AB9E", <<"U+13CE">>>>,
       <<"U+AB9F", <<"U+13CF">>>>, <<"U+ABA0", <<"U+13D0">>>>,
       <<"U+ABA1", <<"U+13D1">>>>, <<"U+ABA2", <<"U+13D2">>>>,
       <<"U+ABA3", <<"U+13D3">>>>, <<"U+ABA4", <<"U+13D4">>>>,
       <<"U+ABA5", <<"U+13D5">>>>, <<"U+ABA6", <<"U+13D6">>>>,
       <<"U+ABA7", <<"U+13D7">>>>, <<"U+ABA8", <<"U+13D8">>>>,
       <<"U+ABA9", <<"U+13D9">>>>, <<"U+ABAA", <<"U+13DA">>>>,
       <<"U+ABAB", <<"U+13DB">>>>, <<"U+ABAC", <<"U+13DC">>>>,
       <<"U+ABAD", <<"U+13DD">>>>, <<"U+ABAE", <<"U+13DE">>>>,
       <<"U+ABAF", <<"U+13DF">>>>, <<"U+ABB0", <<"U+13E0">>>>,
       <<"U+ABB1", <<"U+13E1">>>>, <<"U+ABB2", <<"U+13E2">>>>,
       <<"U+ABB3", <<"U+13E3">>>>, <<"U+ABB4", <<"U+13E4">>>>,
       <<"U+ABB5", <<"U+13E5">>>>, <<"U+ABB6", <<"U+13E6">>>>,
       <<"U+ABB7", <<"U+13E7">>>>, <<"U+ABB8", <<"U+13E8">>>>,
       <<"U+ABB9", <<"U+13E9">>>>, <<"U+ABBA", <<"U+13EA">>>>,
       <<"U+ABBB", <<"U+13EB">>>>, <<"U+ABBC", <<"U+13EC">>>>,
       <<"U+ABBD", <<"U+13ED">>>>, <<"U+ABBE", <<"U+13EE">>>>,
       <<"U+ABBF", <<"U+13EF">>>>, <<"U+FB00", <<"F", "F">>>>,
       <<"U+FB01", <<"F", "I">>>>, <<"U+FB02", <<"F", "L">>>>,
       <<"U+FB03", <<"F", "F", "I">>>>, <<"U+FB04", <<"F", "F", "L">>>>,
       <<"U+FB05", <<"S", "T">>>>, <<"U+FB06", <<"S", "T">>>>,
       <<"U+FB13", <<"U+0544", "U+0546">>>>, <<"U+FB14", <<"U+0544", "U+0535">>>>,
       <<"U+FB15", <<"U+0544", "U+053B">>>>, <<"U+FB16", <<"U+054E", "U+0546">>>>,
       <<"U+FB17", <<"U+0544", "U+053D">>>>, <<"U+FF41", <<"U+FF21">>>>,
       <<"U+FF42", <<"U+FF22">>>>, <<"U+FF43", <<"U+FF23">>>>,
       <<"U+FF44", <<"U+FF24">>>>, <<"U+FF45", <<"U+FF25">>>>,
       <<"U+FF46", <<"U+FF26">>>>, <<"U+FF47", <<"U+FF27">>>>,
       <<"U+FF48", <<"U+FF28">>>>, <<"U+FF49", <<"U+FF29">>>>,
       <<"U+FF4A", <<"U+FF2A">>>>, <<"U+FF4B", <<"U+FF2B">>>>,
       <<"U+FF4C", <<"U+FF2C">>>>, <<"U+FF4D", <<"U+FF2D">>>>,
       <<"U+FF4E", <<"U+FF2E">>>>, <<"U+FF4F", <<"U+FF2F">>>>,
       <<"U+FF50", <<"U+FF30">>>>, <<"U+FF51", <<"U+FF31">>>>,
       <<"U+FF52", <<"U+FF32">>>>, <<"U+FF53", <<"U+FF33">>>>,
       <<"U+FF54", <<"U+FF34">>>>, <<"U+FF55", <<"U+FF35">>>>,
       <<"U+FF56", <<"U+FF36">>>>, <<"U+FF57", <<"U+FF37">>>>,
       <<"U+FF58", <<"U+FF38">>>>, <<"U+FF59", <<"U+FF39">>>>,
       <<"U+FF5A", <<"U+FF3A">>>>, <<"U+10428", <<"U+10400">>>>,
       <<"U+10429", <<"U+10401">>>>, <<"U+1042A", <<"U+10402">>>>,
       <<"U+1042B", <<"U+10403">>>>, <<"U+1042C", <<"U+10404">>>>,
       <<"U+1042D", <<"U+10405">>>>, <<"U+1042E", <<"U+10406">>>>,
       <<"U+1042F", <<"U+10407">>>>, <<"U+10430", <<"U+10408">>>>,
       <<"U+10431", <<"U+10409">>>>, <<"U+10432", <<"U+1040A">>>>,
       <<"U+10433", <<"U+1040B">>>>, <<"U+10434", <<"U+1040C">>>>,
       <<"U+10435", <<"U+1040D">>>>, <<"U+10436", <<"U+1040E">>>>,
       <<"U+10437", <<"U+1040F">>>>, <<"U+10438", <<"U+10410">>>>,
       <<"U+10439", <<"U+10411">>>>, <<"U+1043A", <<"U+10412">>>>,
       <<"U+1043B", <<"U+10413">>>>, <<"U+1043C", <<"U+10414">>>>,
       <<"U+1043D", <<"U+10415">>>>, <<"U+1043E", <<"U+10416">>>>,
       <<"U+1043F", <<"U+10417">>>>, <<"U+10440", <<"U+10418">>>>,
       <<"U+10441", <<"U+10419">>>>, <<"U+10442", <<"U+1041A">>>>,
       <<"U+10443", <<"U+1041B">>>>, <<"U+10444", <<"U+1041C">>>>,
       <<"U+10445", <<"U+1041D">>>>, <<"U+10446", <<"U+1041E">>>>,
       <<"U+10447", <<"U+1041F">>>>, <<"U+10448", <<"U+10420">>>>,
       <<"U+10449", <<"U+10421">>>>, <<"U+1044A", <<"U+10422">>>>,
       <<"U+1044B", <<"U+10423">>>>, <<"U+1044C", <<"U+10424">>>>,
       <<"U+1044D", <<"U+10425">>>>, <<"U+1044E", <<"U+10426">>>>,
       <<"U+1044F", <<"U+10427">>>>, <<"U+104D8", <<"U+104B0">>>>,
       <<"U+104D9", <<"U+104B1">>>>, <<"U+104DA", <<"U+104B2">>>>,
       <<"U+104DB", <<"U+104B3">>>>, <<"U+104DC", <<"U+104B4">>>>,
       <<"U+104DD", <<"U+104B5">>>>, <<"U+104DE", <<"U+104B6">>>>,
       <<"U+104DF", <<"U+104B7">>>>, <<"U+104E0", <<"U+104B8">>>>,
       <<"U+104E1", <<"U+104B9">>>>, <<"U+104E2", <<"U+104BA">>>>,
       <<"U+104E3", <<"U+104BB">>>>, <<"U+104E4", <<"U+104BC">>>>,
       <<"U+104E5", <<"U+104BD">>>>, <<"U+104E6", <<"U+104BE">>>>,
       <<"U+104E7", <<"U+104BF">>>>, <<"U+104E8", <<"U+104C0">>>>,
       <<"U+104E9", <<"U+104C1">>>>, <<"U+104EA", <<"U+104C2">>>>,
       <<"U+104EB", <<"U+104C3">>>>, <<"U+104EC", <<"U+104C4">>>>,
       <<"U+104ED", <<"U+104C5">>>>, <<"U+104EE", <<"U+104C6">>>>,
       <<"U+104EF", <<"U+104C7">>>>, <<"U+104F0", <<"U+104C8">>>>,
       <<"U+104F1", <<"U+104C9">>>>, <<"U+104F2", <<"U+104CA">>>>,
       <<"U+104F3", <<"U+104CB">>>>, <<"U+104F4", <<"U+104CC">>>>,
       <<"U+104F5", <<"U+104CD">>>>, <<"U+104F6", <<"U+104CE">>>>,
       <<"U+104F7", <<"U+104CF">>>>, <<"U+104F8", <<"U+104D0">>>>,
       <<"U+104F9", <<"U+104D1">>>>, <<"U+104FA", <<"U+104D2">>>>,
       <<"U+104FB", <<"U+104D3">>>>, <<"U+10597", <<"U+10570">>>>,
       <<"U+10598", <<"U+10571">>>>, <<"U+10599", <<"U+10572">>>>,
       <<"U+1059A", <<"U+10573">>>>, <<"U+1059B", <<"U+10574">>>>,
       <<"U+1059C", <<"U+10575">>>>, <<"U+1059D", <<"U+10576">>>>,
       <<"U+1059E", <<"U+10577">>>>, <<"U+1059F", <<"U+10578">>>>,
       <<"U+105A0", <<"U+10579">>>>, <<"U+105A1", <<"U+1057A">>>>,
       <<"U+105A3", <<"U+1057C">>>>, <<"U+105A4", <<"U+1057D">>>>,
       <<"U+105A5", <<"U+1057E">>>>, <<"U+105A6", <<"U+1057F">>>>,
       <<"U+105A7", <<"U+10580">>>>, <<"U+105A8", <<"U+10581">>>>,
       <<"U+105A9", <<"U+10582">>>>, <<"U+105AA", <<"U+10583">>>>,
       <<"U+105AB", <<"U+10584">>>>, <<"U+105AC", <<"U+10585">>>>,
       <<"U+105AD", <<"U+10586">>>>, <<"U+105AE", <<"U+10587">>>>,
       <<"U+105AF", <<"U+10588">>>>, <<"U+105B0", <<"U+10589">>>>,
       <<"U+105B1", <<"U+1058A">>>>, <<"U+105B3", <<"U+1058C">>>>,
       <<"U+105B4", <<"U+1058D">>>>, <<"U+105B5", <<"U+1058E">>>>,
       <<"U+105B6", <<"U+1058F">>>>, <<"U+105B7", <<"U+10590">>>>,
       <<"U+105B8", <<"U+10591">>>>, <<"U+105B9", <<"U+10592">>>>,
       <<"U+105BB", <<"U+10594">>>>, <<"U+105BC", <<"U+10595">>>>,
       <<"U+10CC0", <<"U+10C80">>>>, <<"U+10CC1", <<"U+10C81">>>>,
       <<"U+10CC2", <<"U+10C82">>>>, <<"U+10CC3", <<"U+10C83">>>>,
       <<"U+10CC4", <<"U+10C84">>>>, <<"U+10CC5", <<"U+10C85">>>>,
       <<"U+10CC6", <<"U+10C86">>>>, <<"U+10CC7", <<"U+10C87">>>>,
       <<"U+10CC8", <<"U+10C88">>>>, <<"U+10CC9", <<"U+10C89">>>>,
       <<"U+10CCA", <<"U+10C8A">>>>, <<"U+10CCB", <<"U+10C8B">>>>,
       <<"U+10CCC", <<"U+10C8C">>>>, <<"U+10CCD", <<"U+10C8D">>>>,
       <<"U+10CCE", <<"U+10C8E">>>>, <<"U+10CCF", <<"U+10C8F">>>>,
       <<"U+10CD0", <<"U+10C90">>>>, <<"U+10CD1", <<"U+10C91">>>>,
       <<"U+10CD2", <<"U+10C92">>>>, <<"U+10CD3", <<"U+10C93">>>>,
       <<"U+10CD4", <<"U+10C94">>>>, <<"U+10CD5", <<"U+10C95">>>>,
       <<"U+10CD6", <<"U+10C96">>>>, <<"U+10CD7", <<"U+10C97">>>>,
       <<"U+10CD8", <<"U+10C98">>>>, <<"U+10CD9", <<"U+10C99">>>>,
       <<"U+10CDA", <<"U+10C9A">>>>, <<"U+10CDB", <<"U+10C9B">>>>,
       <<"U+10CDC", <<"U+10C9C">>>>, <<"U+10CDD", <<"U+10C9D">>>>,
       <<"U+10CDE", <<"U+10C9E">>>>, <<"U+10CDF", <<"U+10C9F">>>>,
       <<"U+10CE0", <<"U+10CA0">>>>, <<"U+10CE1", <<"U+10CA1">>>>,
       <<"U+10CE2", <<"U+10CA2">>>>, <<"U+10CE3", <<"U+10CA3">>>>,
       <<"U+10CE4", <<"U+10CA4">>>>, <<"U+10CE5", <<"U+10CA5">>>>,
       <<"U+10CE6", <<"U+10CA6">>>>, <<"U+10CE7", <<"U+10CA7">>>>,
       <<"U+10CE8", <<"U+10CA8">>>>, <<"U+10CE9", <<"U+10CA9">>>>,
       <<"U+10CEA", <<"U+10CAA">>>>, <<"U+10CEB", <<"U+10CAB">>>>,
       <<"U+10CEC", <<"U+10CAC">>>>, <<"U+10CED", <<"U+10CAD">>>>,
       <<"U+10CEE", <<"U+10CAE">>>>, <<"U+10CEF", <<"U+10CAF">>>>,
       <<"U+10CF0", <<"U+10CB0">>>>, <<"U+10CF1", <<"U+10CB1">>>>,
       <<"U+10CF2", <<"U+10CB2">>>>, <<"U+118C0", <<"U+118A0">>>>,
       <<"U+118C1", <<"U+118A1">>>>, <<"U+118C2", <<"U+118A2">>>>,
       <<"U+118C3", <<"U+118A3">>>>, <<"U+118C4", <<"U+118A4">>>>,
       <<"U+118C5", <<"U+118A5">>>>, <<"U+118C6", <<"U+118A6">>>>,
       <<"U+118C7", <<"U+118A7">>>>, <<"U+118C8", <<"U+118A8">>>>,
       <<"U+118C9", <<"U+118A9">>>>, <<"U+118CA", <<"U+118AA">>>>,
       <<"U+118CB", <<"U+118AB">>>>, <<"U+118CC", <<"U+118AC">>>>,
       <<"U+118CD", <<"U+118AD">>>>, <<"U+118CE", <<"U+118AE">>>>,
       <<"U+118CF", <<"U+118AF">>>>, <<"U+118D0", <<"U+118B0">>>>,
       <<"U+118D1", <<"U+118B1">>>>, <<"U+118D2", <<"U+118B2">>>>,
       <<"U+118D3", <<"U+118B3">>>>, <<"U+118D4", <<"U+118B4">>>>,
       <<"U+118D5", <<"U+118B5">>>>, <<"U+118D6", <<"U+118B6">>>>,
       <<"U+118D7", <<"U+118B7">>>>, <<"U+118D8", <<"U+118B8">>>>,
       <<"U+118D9", <<"U+118B9">>>>, <<"U+118DA", <<"U+118BA">>>>,
       <<"U+118DB", <<"U+118BB">>>>, <<"U+118DC", <<"U+118BC">>>>,
       <<"U+118DD", <<"U+118BD">>>>, <<"U+118DE", <<"U+118BE">>>>,
       <<"U+118DF", <<"U+118BF">>>>, <<"U+16E60", <<"U+16E40">>>>,
       <<"U+16E61", <<"U+16E41">>>>, <<"U+16E62", <<"U+16E42">>>>,
       <<"U+16E63", <<"U+16E43">>>>, <<"U+16E64", <<"U+16E44">>>>,
       <<"U+16E65", <<"U+16E45">>>>, <<"U+16E66", <<"U+16E46">>>>,
       <<"U+16E67", <<"U+16E47">>>>, <<"U+16E68", <<"U+16E48">>>>,
       <<"U+16E69", <<"U+16E49">>>>, <<"U+16E6A", <<"U+16E4A">>>>,
       <<"U+16E6B", <<"U+16E4B">>>>, <<"U+16E6C", <<"U+16E4C">>>>,
       <<"U+16E6D", <<"U+16E4D">>>>, <<"U+16E6E", <<"U+16E4E">>>>,
       <<"U+16E6F", <<"U+16E4F">>>>, <<"U+16E70", <<"U+16E50">>>>,
       <<"U+16E71", <<"U+16E51">>>>, <<"U+16E72", <<"U+16E52">>>>,
       <<"U+16E73", <<"U+16E53">>>>, <<"U+16E74", <<"U+16E54">>>>,
       <<"U+16E75", <<"U+16E55">>>>, <<"U+16E76", <<"U+16E56">>>>,
       <<"U+16E77", <<"U+16E57">>>>, <<"U+16E78", <<"U+16E58">>>>,
       <<"U+16E79", <<"U+16E59">>>>, <<"U+16E7A", <<"U+16E5A">>>>,
       <<"U+16E7B", <<"U+16E5B">>>>, <<"U+16E7C", <<"U+16E5C">>>>,
       <<"U+16E7D", <<"U+16E5D">>>>, <<"U+16E7E", <<"U+16E5E">>>>,
       <<"U+16E7F", <<"U+16E5F">>>>, <<"U+1E922", <<"U+1E900">>>>,
       <<"U+1E923", <<"U+1E901">>>>, <<"U+1E924", <<"U+1E902">>>>,
       <<"U+1E925", <<"U+1E903">>>>, <<"U+1E926", <<"U+1E904">>>>,
       <<"U+1E927", <<"U+1E905">>>>, <<"U+1E928", <<"U+1E906">>>>,
       <<"U+1E929", <<"U+1E907">>>>, <<"U+1E92A", <<"U+1E908">>>>,
       <<"U+1E92B", <<"U+1E909">>>>, <<"U+1E92C", <<"U+1E90A">>>>,
       <<"U+1E92D", <<"U+1E90B">>>>, <<"U+1E92E", <<"U+1E90C">>>>,
       <<"U+1E92F", <<"U+1E90D">>>>, <<"U+1E930", <<"U+1E90E">>>>,
       <<"U+1E931", <<"U+1E90F">>>>, <<"U+1E932", <<"U+1E910">>>>,
       <<"U+1E933", <<"U+1E911">>>>, <<"U+1E934", <<"U+1E912">>>>,
       <<"U+1E935", <<"U+1E913">>>>, <<"U+1E936", <<"U+1E914">>>>,
       <<"U+1E937", <<"U+1E915">>>>, <<"U+1E938", <<"U+1E916">>>>,
       <<"U+1E939", <<"U+1E917">>>>, <<"U+1E93A", <<"U+1E918">>>>,
       <<"U+1E93B", <<"U+1E919">>>>, <<"U+1E93C", <<"U+1E91A">>>>,
       <<"U+1E93D", <<"U+1E91B">>>>, <<"U+1E93E", <<"U+1E91C">>>>,
       <<"U+1E93F", <<"U+1E91D">>>>, <<"U+1E940", <<"U+1E91E">>>>,
       <<"U+1E941", <<"U+1E91F">>>>, <<"U+1E942", <<"U+1E920">>>>,
       <<"U+1E943", <<"U+1E921">>>> >>

UpperOf ==
    [c \in {Cased[i][1] : i \in DOMAIN Cased}
        |-> Cased[CHOOSE i \in DOMAIN Cased : Cased[i][1] = c][2]]
HasUpper == DOMAIN UpperOf

\* str.upper: every character by itself, whatever is around it
upper(s) ==
    concat([k \in DOMAIN s |->
                IF s[k] \in HasUpper THEN UpperOf[s[k]] ELSE <<s[k]>>])

\* _parse_line did not return: IndexError or ValueError
Raised ==
    [ok |-> FALSE, sender |-> <<>>, command |-> <<>>, middle |-> <<>>,
     trailing |-> <<>>]

\* _parse_line. None is given as the empty text: _run() only tests sender,
\* middle and trailing for truth.
parse_line(line) ==
    IF Len(line) = 0 THEN Raised
    ELSE
    LET lead == IF line[1] = ":" THEN split_once(Tail(line))
                ELSE << <<>>, line >>
    IN  IF Len(lead) # 2 THEN Raised
        ELSE
        LET rest == split_once(lead[2])
            params == IF Len(rest) = 2 THEN split_at(rest[2], ":") ELSE <<>>
        IN  IF Len(rest) = 0 THEN Raised
            ELSE [ok |-> TRUE,
                  sender |-> IF Len(lead[1]) > 0 THEN split_at(lead[1], "!")[1]
                             ELSE <<>>,
                  command |-> upper(rest[1]),
                  middle |-> IF Len(rest) = 2 THEN strip(params[1]) ELSE <<>>,
                  trailing |-> IF Len(params) = 2 THEN strip(params[2])
                               ELSE <<>>]

\* select() finds the socket readable and sock.recv() gives the next n
\* bytes, or none: the server has closed the connection and _recv() raises.
\* The lines that are complete wait to be yielded; with none of them the
\* generator goes back to select().
WireRead(reads, hz) ==
    /\ pc = "recv"
    /\ wire.pending = <<>>
    /\ \E n \in reads :
        /\ n <= Len(wire.whole) - wire.pos
        /\ IF n = 0
           THEN /\ Except(hz)
                /\ sent' = <<>>
                /\ evt' = Event("recv", NoLine, <<>>, TRUE)
                /\ UNCHANGED <<timebox, wire>>
           ELSE LET data == SubSeq(wire.whole, wire.pos + 1, wire.pos + n)
                    lines == split_crlf(wire.buffer \o decode(data))
                IN  /\ wire' = [wire EXCEPT !.pos = wire.pos + n,
                                            !.buffer = Last(lines),
                                            !.pending = Front(lines)]
                    /\ sent' = <<>>
                    /\ evt' = Event("read", NoLine, <<>>, FALSE)
                    /\ UNCHANGED <<timebox, retry_delay, now, pc, fails, slept>>

\* select() times out: the generator yields None
WireIdle ==
    /\ pc = "recv"
    /\ wire.pending = <<>>
    /\ Skip(NoLine)
    /\ UNCHANGED wire

\* the generator yields its next line and _run() handles it, lines 73-88
WireLine(faults, hz) ==
    /\ pc = "recv"
    /\ wire.pending # <<>>
    /\ wire' = [wire EXCEPT !.pending = Tail(wire.pending),
                            !.yielded = Append(wire.yielded, Head(wire.pending))]
    /\ LET p == parse_line(Head(wire.pending))
           line == Line(IF p.ok THEN "message" ELSE "empty", p.sender,
                        p.command, p.middle, split(p.trailing))
       IN  IF ~p.ok THEN Raise(line, hz)
           ELSE IF p.command = PING
           THEN \E fault \in faults \cap 0..1 : Pong(line, fault, hz)
           ELSE IF /\ p.command = PRIVMSG
                   /\ Len(p.sender) > 0 /\ Len(p.middle) > 0
                   /\ Len(p.trailing) > 0
                   /\ StartsWith(p.trailing, prefix)
           THEN Route(line, faults)
           ELSE Skip(line)

----------------------------------------------------------------------------
(* The people and what they send.                                          *)

Persons == {alice, bob}

n15 == <<"1", "5">>
task == <<"a">>

MainWords ==
    { <<prefix \o begin, n15, task>>,
      <<prefix \o cancel>>,
      <<prefix \o delete>> }

MainLines ==
    {NoLine, EmptyLine, Ping}
    \cup { Chat(p, Channel, w) : p \in Persons, w \in MainWords }

MaxShort == 1
MaxLong == 1
MaxFault == 1
MaxFails == 1

MainHorizon == [short |-> MaxShort, long |-> MaxLong, fails |-> MaxFails]
Faults == 0..MaxFault

Next ==
    \/ Connect
    \/ ConnectFail(Faults, MainHorizon)
    \/ RecvFail(MainHorizon)
    \/ Advance(MainHorizon)
    \/ Recv(MainLines, Faults, MainHorizon)
    \/ Tick(Faults, MainHorizon)

Spec == Init /\ [][Next]_vars

----------------------------------------------------------------------------
(* Retention: one person who starts a timebox every quarter of an hour.    *)

RetentionShort == 10

RetentionLines == {NoLine, Chat(alice, Channel, <<prefix \o begin, n15, task>>)}

RetentionHorizon == [short |-> RetentionShort, long |-> MaxLong, fails |-> 0]

NextRetention ==
    \/ Connect
    \/ Advance(RetentionHorizon)
    \/ Recv(RetentionLines, {0}, RetentionHorizon)
    \/ Tick({0}, RetentionHorizon)

SpecRetention == Init /\ [][NextRetention]_vars

----------------------------------------------------------------------------
(* Durations: one person who starts timeboxes of every kind of length.     *)

n0 == <<"0">>
n14 == <<"1", "4">>
n015 == <<"0", "1", "5">>
n17 == <<"1", "7">>
n60 == <<"6", "0">>
n61 == <<"6", "1">>
n65 == <<"6", "5">>

\* 15 in Arabic-Indic digits and in fullwidth digits, 5 in Devanagari
ar15 == <<"U+0661", "U+0665">>
fw15 == <<"U+FF11", "U+FF15">>
dv5 == <<"U+096B">>

\* words that are digits and that int() does not take: a superscript two, a
\* circled one, and one digit more than the interpreter converts
sup2 == <<"U+00B2">>
circled1 == <<"U+2460">>
huge == [i \in 1..(MaxStrDigits + 1) |-> "1"]
NoNumbers == {sup2, circled1, huge}

\* a summary with which 'Started timebox: ...' is one character longer than
\* a chunk
long == [i \in 1..(ChunkSize - 43) |-> "a"]

Numerals == {n0, n14, n15, n015, n17, n60, n61, n65, ar15, fw15, dv5}

BeginParams ==
    { <<n, task>> : n \in Numerals }
    \cup { <<w, task>> : w \in NoNumbers }
    \cup { <<task>>, <<task, n15>>, <<n15>>, <<>>, <<n15, long>> }

BeginLines ==
    {NoLine} \cup { Chat(alice, Channel, <<prefix \o begin>> \o p) : p \in BeginParams }

\* the clock moves by quarters of an hour only
BeginHorizon == [short |-> MaxShort, long |-> 0, fails |-> MaxFails]

NextBegin ==
    \/ Connect
    \/ ConnectFail(Faults, BeginHorizon)
    \/ RecvFail(BeginHorizon)
    \/ Advance(BeginHorizon)
    \/ Recv(BeginLines, Faults, BeginHorizon)
    \/ Tick(Faults, BeginHorizon)

SpecBegin == Init /\ [][NextBegin]_vars

----------------------------------------------------------------------------
(* Backoff: a server that pings, chats and fails, and no timeboxes.        *)

BackoffShort == 10
BackoffLong == 4
BackoffFails == 14

BackoffLines ==
    {NoLine, EmptyLine, Ping, Notice, Chat(alice, Channel, <<prefix \o time>>)}

BackoffHorizon ==
    [short |-> BackoffShort, long |-> BackoffLong, fails |-> BackoffFails]

NextBackoff ==
    \/ Connect
    \/ ConnectFail(Faults, BackoffHorizon)
    \/ RecvFail(BackoffHorizon)
    \/ Advance(BackoffHorizon)
    \/ Recv(BackoffLines, Faults, BackoffHorizon)
    \/ Tick(Faults, BackoffHorizon)

SpecBackoff == Init /\ [][NextBackoff]_vars

----------------------------------------------------------------------------
(* Routing: one person who sends every beginning of every command name,    *)
(* in the channel and in private, with and without a blocked word.         *)

spam == <<"s", "p", "a", "m">>
spams == <<"s", "p", "a", "m", "s">>

Prefixes(word) == { SubSeq(word, 1, n) : n \in 0..Len(word) }

RouteNames ==
    UNION { Prefixes(commands[i]) : i \in DOMAIN commands }
    \cup { <<"x">>, <<"b", "e", "g", "i", "n", "s">>, <<"e", "g", "i", "n">> }

RouteParams == { <<>>, <<n15, task>>, <<n15, spam>>, <<n15, spams>> }

RouteLines ==
    {NoLine} \cup
    { Chat(alice, m, <<prefix \o c>> \o p) :
        m \in {Channel, nick}, c \in RouteNames, p \in RouteParams }

\* a quiet connection: the clock moves by quarters of an hour only and
\* nothing ends the cycle
RouteHorizon == [short |-> MaxShort, long |-> 0, fails |-> 0]

NextRoute ==
    \/ Connect
    \/ Advance(RouteHorizon)
    \/ Recv(RouteLines, Faults, RouteHorizon)
    \/ Tick(Faults, RouteHorizon)

SpecRoute == Init /\ [][NextRoute]_vars

----------------------------------------------------------------------------
(* The store: one person who sends every command, a word that is no       *)
(* command and the prefix alone, which every command matches, in the       *)
(* channel and in private, and another who begins timeboxes and asks what  *)
(* is running, on a connection that can fail once; the state file is empty *)
(* at the start.                                                           *)

StoreWords ==
    { <<prefix \o begin, n15, task>> } \cup { <<prefix \o c>> : c \in
        {cancel, delete, help, list, running, time, <<"x">>, <<>>} }

StoreLines ==
    {NoLine, Ping}
    \cup { Chat(alice, m, w) : m \in {Channel, nick}, w \in StoreWords }
    \cup { Chat(bob, Channel, w) :
                w \in { <<prefix \o begin, n15, task>>, <<prefix \o running>> } }

StoreHorizon == [short |-> MaxShort, long |-> 0, fails |-> 1]

NextStore ==
    \/ Connect
    \/ ConnectFail(Faults, StoreHorizon)
    \/ RecvFail(StoreHorizon)
    \/ Advance(StoreHorizon)
    \/ Recv(StoreLines, Faults, StoreHorizon)
    \/ Tick(Faults, StoreHorizon)

SpecStore == Start({<<>>}, {<<>>}) /\ [][NextStore]_vars

----------------------------------------------------------------------------
(* Targets: two people who begin and ask what is running, in two channels  *)
(* and in private; the socket fails in the tasks only.                     *)

TargetWords == { <<prefix \o begin, n15, task>>, <<prefix \o running>> }

TargetLines ==
    {NoLine}
    \cup { Chat(p, m, w) : p \in Persons, m \in {Channel, Lounge, nick},
                           w \in TargetWords }

TargetHorizon == [short |-> MaxShort, long |-> 0, fails |-> 0]

NextTarget ==
    \/ Connect
    \/ Advance(TargetHorizon)
    \/ Recv(TargetLines, {0}, TargetHorizon)
    \/ Tick(Faults, TargetHorizon)

SpecTarget == Init /\ [][NextTarget]_vars

----------------------------------------------------------------------------
(* Throttling: one person with three completed timeboxes in the state file *)
(* who asks for the list, in the channel and in private, and begins and    *)
(* deletes timeboxes.                                                      *)

SavedThree ==
    <<[key |-> alice,
       val |-> [k \in 1..3 |->
                   [timebox_record(alice, Channel, (k - 4) * ShortStep,
                                   MinDuration, <<"a">>)
                    EXCEPT !.completed = TRUE]]]>>

ThrottleLines ==
    {NoLine}
    \cup { Chat(alice, m, <<prefix \o list>>) : m \in {Channel, nick} }
    \cup { Chat(alice, Channel, w) :
                w \in { <<prefix \o begin, n15, task>>, <<prefix \o delete>> } }

ThrottleHorizon == [short |-> MaxShort, long |-> 0, fails |-> 0]

NextThrottle ==
    \/ Connect
    \/ Advance(ThrottleHorizon)
    \/ Recv(ThrottleLines, Faults, ThrottleHorizon)
    \/ Tick({0}, ThrottleHorizon)

SpecThrottle == Start({<<>>}, {SavedThree}) /\ [][NextThrottle]_vars

----------------------------------------------------------------------------
(* Progress: the process keeps running and time keeps passing. main()      *)
(* calls _run() again after every failure, _recv() yields a value at least *)
(* every second, and every iteration goes on to its tasks. A timebox is    *)
(* begun only while the clock of the run can still pass its deadline.      *)

LiveShort == 2

LiveHorizon == [short |-> LiveShort, long |-> 0, fails |-> 1]

LiveLines ==
    {NoLine, Chat(alice, Channel, <<prefix \o cancel>>)}
    \cup IF CanAdvance(now, ShortStep, LiveHorizon)
         THEN { Chat(p, Channel, <<prefix \o begin, n15, task>>) : p \in Persons }
         ELSE {}

NextLive ==
    \/ Connect
    \/ ConnectFail(Faults, LiveHorizon)
    \/ RecvFail(LiveHorizon)
    \/ Advance(LiveHorizon)
    \/ Recv(LiveLines, Faults, LiveHorizon)
    \/ Tick(Faults, LiveHorizon)

SpecLive ==
    /\ Init
    /\ [][NextLive]_vars
    /\ WF_vars(Connect)
    /\ WF_vars(Tick(Faults, LiveHorizon))
    /\ SF_vars(Recv(LiveLines, Faults, LiveHorizon))
    /\ SF_vars(Advance(LiveHorizon))

----------------------------------------------------------------------------
(* The wire: a server that sends any short run of bytes, or one of a few   *)
(* longer ones, in reads of any size up to MaxRead, and may close.         *)

MaxStream == 3
MaxRead == 2

WireBytes == {"a", "\r", "\n", "C3", "A9"}

CRLF == <<"\r", "\n">>
PrefixOnly == <<":", "a">> \o CRLF
Blank == <<" ">> \o CRLF
TwoLines == <<"a">> \o CRLF \o <<"a">> \o CRLF \o <<"a">>
Accent == <<"a", "C3", "A9">> \o CRLF
PingBytes == <<"p", "i", "n", "g", " ", ":", "a">> \o CRLF
ChatBytes ==
    <<":", "a", "l", "i", "c", "e", "!", "a", " ", "P", "R", "I", "V", "M",
      "S", "G", " ", "#", "t", "z", " ", ":", ",", "t", "i", "m", "e">> \o CRLF

WireStreams ==
    UNION { [1..k -> WireBytes] : k \in 0..MaxStream }
    \cup {PrefixOnly, Blank, TwoLines, Accent, PingBytes, ChatBytes}

WireHorizon == [short |-> 1, long |-> 0, fails |-> 1]

NextWire ==
    \/ Connect
    \/ WireRead(0..MaxRead, WireHorizon)
    \/ WireIdle
    \/ WireLine(Faults, WireHorizon)
    \/ Tick({0}, WireHorizon)

SpecWire == Start(WireStreams, {<<>>}) /\ [][NextWire]_vars

----------------------------------------------------------------------------
(* Properties.                                                             *)

\* the ledger of a person, empty for a person who is not in the store
LedgerOf(tb, person) ==
    IF \E i \in DOMAIN tb : tb[i].key = person
    THEN tb[CHOOSE i \in DOMAIN tb : tb[i].key = person].val
    ELSE <<>>

\* the states of a person (spec 4.4)
Absent(tb, person) == LedgerOf(tb, person) = <<>>
Running(tb, person) ==
    /\ LedgerOf(tb, person) # <<>>
    /\ ~LedgerOf(tb, person)[Len(LedgerOf(tb, person))].completed
Settled(tb, person) ==
    /\ LedgerOf(tb, person) # <<>>
    /\ LedgerOf(tb, person)[Len(LedgerOf(tb, person))].completed

\* the last step handled a chat line and called the action of `command`
Called(e, command) == e.kind = "line" /\ e.ran = <<command>>

\* the one reply of the last step is out, with this leading word, in as
\* many lines as it has chunks, unless the step failed: then the lines that
\* are out are its first chunks, or nothing is out
OneReply(lines, e, level) ==
    /\ \A k \in DOMAIN lines :
            /\ lines[k].text = lines[1].text
            /\ lines[k].part = k
            /\ k <= chunks(lines[1].text)
            /\ lines[k].text.level = level
    /\ IF e.failed THEN lines = <<>> \/ Len(lines) < chunks(lines[1].text)
       ELSE lines # <<>> /\ Len(lines) = chunks(lines[1].text)

\* C1: in every reachable state every ledger has at most one record with
\* completed = false, and such a record is the last one of its ledger.
C1_SingleRunning ==
    \A i \in DOMAIN timebox :
        LET ledger == timebox[i].val IN
        /\ Cardinality({k \in DOMAIN ledger : ~ledger[k].completed}) <= 1
        /\ \A k \in DOMAIN ledger : ~ledger[k].completed => k = Len(ledger)

\* a ledger with a running record behind a completed one, beside another
\* person's ledger
C1_Witness ==
    /\ Len(timebox) = 2
    /\ \E i \in DOMAIN timebox :
        /\ Len(timebox[i].val) >= 2
        /\ ~timebox[i].val[Len(timebox[i].val)].completed

\* C3: begin by a Running person, cancel by a Settled or Absent person and
\* delete by a Running person leave the store as it is; the first two are
\* answered with "Error: ", the third with "Warning: ".
C3_Refusals ==
    [][LET who == evt'.line.sender IN
       /\ Called(evt', begin) /\ Running(timebox, who)
            => timebox' = timebox /\ OneReply(sent', evt', "Error: ")
       /\ Called(evt', cancel) /\ ~Running(timebox, who)
            => timebox' = timebox /\ OneReply(sent', evt', "Error: ")
       /\ Called(evt', delete) /\ Running(timebox, who)
            => timebox' = timebox /\ OneReply(sent', evt', "Warning: ")
      ]_vars

\* delete was refused with the warning for a person with an earlier
\* completed record
C3_Witness ==
    /\ Called(evt, delete)
    /\ Running(timebox, evt.line.sender)
    /\ Len(LedgerOf(timebox, evt.line.sender)) >= 2
    /\ Len(sent) = 1 /\ sent[1].text.level = "Warning: "

\* C4: after every iteration of the loop every ledger is non-empty, none
\* holds more than 10 records and no record started more than 48 hours
\* before the clock of that iteration.
C4_RetentionAfterEveryTick ==
    evt.kind = "tick" =>
        \A i \in DOMAIN timebox :
            LET ledger == timebox[i].val IN
            /\ Len(ledger) > 0
            /\ Len(ledger) <= 10
            /\ \A k \in DOMAIN ledger : now - ledger[k].start <= 48 * 3600

\* C6: on every tick each Running record whose deadline has passed is set
\* to completed and its completion is announced to its reply_to, and a
\* Running record whose deadline has not passed stays Running.
C6_CompletedAndAnnounced ==
    [][evt'.kind \in {"tick", "write"} =>
        \A i \in DOMAIN timebox :
            LET ledger == timebox[i].val
                last == ledger[Len(ledger)]
                after == LedgerOf(timebox', timebox[i].key)
                gone == \A k \in DOMAIN after : after[k].start # last.start
                kept == \E k \in DOMAIN after :
                            /\ after[k].start = last.start
                            /\ after[k].completed
            IN  /\ ~last.completed /\ last.start + last.duration * 60 <= now
                    => /\ gone \/ kept
                       /\ \E k \in DOMAIN sent' :
                            /\ sent'[k].to = last.reply_to
                            /\ sent'[k].text.head = "Completed timebox: "
                            /\ sent'[k].text.arg[1].person = last.person
                /\ ~last.completed /\ now < last.start + last.duration * 60
                    => \E k \in DOMAIN after :
                            /\ after[k].start = last.start
                            /\ ~after[k].completed
      ]_vars

\* the number a duration word stands for
C2_Value(w) ==
    CASE w = n0 -> 0 [] w = n14 -> 14 [] w = n15 -> 15 [] w = n015 -> 15
      [] w = n17 -> 17 [] w = n60 -> 60 [] w = n61 -> 61 [] w = n65 -> 65
      [] w = ar15 -> 15 [] w = fw15 -> 15 [] w = dv5 -> 5

\* tb2 is tb with one Running record of d minutes, started at t by who,
\* added at the end of who's ledger
C2_Started(tb, tb2, who, d, t) ==
    LET old == LedgerOf(tb, who)
        new == LedgerOf(tb2, who)
    IN  /\ Len(new) = Len(old) + 1
        /\ \A k \in DOMAIN old : new[k] = old[k]
        /\ new[Len(new)].person = who
        /\ new[Len(new)].duration = d
        /\ new[Len(new)].start = t
        /\ ~new[Len(new)].completed
        /\ \A i \in DOMAIN tb : tb[i].key # who =>
                LedgerOf(tb2, tb[i].key) = tb[i].val
        /\ \A i \in DOMAIN tb2 : tb2[i].key # who =>
                LedgerOf(tb, tb2[i].key) = tb2[i].val

\* C2: begin by an Absent or Settled person with a numeric duration d and a
\* summary appends one Running record of d minutes started now iff
\* 15 <= d <= 60 and d mod 5 = 0; with no duration the record gets 30
\* minutes; a rejected begin leaves the store as it is, also the one whose
\* first word is made of digits and stands for no number, with nothing
\* sent; every stored duration is one of 15, 20, ..., 60.
C2_Durations ==
    /\ [](\A i \in DOMAIN timebox : \A k \in DOMAIN timebox[i].val :
            timebox[i].val[k].duration \in {15, 20, 25, 30, 35, 40, 45, 50, 55, 60})
    /\ [][Called(evt', begin) =>
            LET who == evt'.line.sender
                params == Tail(evt'.line.trailing)
            IN  /\ ~Running(timebox, who) /\ Len(params) >= 2
                   /\ params[1] \in Numerals
                    => LET d == C2_Value(params[1]) IN
                       IF 15 <= d /\ d <= 60 /\ d % 5 = 0
                       THEN /\ C2_Started(timebox, timebox', who, d, now')
                            /\ OneReply(sent', evt', "")
                       ELSE /\ timebox' = timebox
                            /\ OneReply(sent', evt', "Error: ")
                /\ ~Running(timebox, who) /\ Len(params) >= 1
                   /\ params[1] \notin Numerals \cup NoNumbers
                    => C2_Started(timebox, timebox', who, 30, now')
                /\ Len(params) >= 2 /\ params[1] \in NoNumbers
                    => timebox' = timebox /\ sent' = <<>>
                /\ (~evt'.failed /\ sent'[1].text.level = "Error: ")
                    => timebox' = timebox
      ]_vars

\* a Settled person has started a second timebox, of 60 minutes
C2_Witness ==
    /\ Called(evt, begin)
    /\ Len(LedgerOf(timebox, alice)) = 2
    /\ LedgerOf(timebox, alice)[1].completed
    /\ LedgerOf(timebox, alice)[2].duration = 60
    /\ LedgerOf(timebox, alice)[2].start = now

\* C5: a cleanup leaves of every ledger exactly the last 10 of the records
\* that started within 48 hours of the clock, in their order (a record
\* exactly 48 hours old is within), takes a person with none of them out
\* of the store, and never keeps a record while dropping a later one.
C5_Cleanup ==
    [][evt'.kind = "tick" /\ ~evt'.failed =>
        \A i \in DOMAIN timebox :
            LET ledger == timebox[i].val
                after == LedgerOf(timebox', timebox[i].key)
                within == {k \in DOMAIN ledger :
                              now - ledger[k].start <= 48 * 3600}
                keep == {k \in within :
                            Cardinality({j \in within : j > k}) < 10}
                same(a, b) == /\ a.person = b.person /\ a.start = b.start
                              /\ a.duration = b.duration
                              /\ a.summary = b.summary
                              /\ a.reply_to = b.reply_to
            IN  /\ Len(after) = Cardinality(keep)
                /\ \A k \in keep :
                    same(after[Cardinality({j \in keep : j < k}) + 1],
                         ledger[k])
                /\ keep = {} => ~Has(timebox', timebox[i].key)
                /\ \A k \in keep : \A j \in DOMAIN ledger : j > k => j \in keep
      ]_vars

\* a tick has cut a ledger of 11 records, all within 48 hours, to 10
C5_Witness ==
    /\ evt.kind = "tick"
    /\ evt.dropped = 1
    /\ now < 48 * 3600
    /\ Len(LedgerOf(timebox, alice)) = 10

\* 2 to the power k
RECURSIVE Pow2(_)
Pow2(k) == IF k = 0 THEN 1 ELSE 2 * Pow2(k - 1)

\* C7: the delay starts at 1 and stays within 1..3600; the k-th failure in
\* a row with no PING handled in between is followed by a sleep of
\* min(2^(k-1), 3600), after which main() calls _run() again; main() ends
\* only before its loop, when start-up fails.
C7_Backoff ==
    /\ retry_delay \in 1..3600
    /\ retry_delay = Min(Pow2(fails), 3600)
    /\ pc \in {"start", "recv", "tick", "exit"}
    /\ pc = "exit" => evt.kind = "init" /\ evt.failed
    /\ slept > 0 => /\ pc = "start"
                    /\ fails >= 1
                    /\ slept = Min(Pow2(fails - 1), 3600)
    /\ evt.kind = "init" => retry_delay = 1

\* the 13th failure in a row has slept the full 3600
C7_Witness ==
    /\ pc = "start"
    /\ fails = 13
    /\ slept = 3600

\* the last step handled a PING: its PONG is out
Ponged(e, lines) ==
    /\ e.kind = "line" /\ e.line.cmd = PING /\ ~e.failed
    /\ Len(lines) = 1 /\ lines[1].text.head = "PONG"

\* the last step left _run() by an exception
LeftRun(e) ==
    \/ e.kind \in {"connect", "recv"} /\ e.failed
    \/ e.kind = "line" /\ e.failed /\ e.line.cmd # PRIVMSG
    \/ e.kind = "write"

\* C8: the delay becomes 1 when a PING is handled, and nothing else lowers
\* it: a connect, a join or any other line leaves it as it is, a failure
\* sleeps the delay it finds and doubles it, so the first failure after a
\* handled PING sleeps 1.
C8_ResetByPingOnly ==
    [][/\ Ponged(evt', sent') => retry_delay' = 1
       /\ retry_delay' < retry_delay => Ponged(evt', sent')
       /\ ~Ponged(evt', sent') /\ ~LeftRun(evt') => retry_delay' = retry_delay
       /\ LeftRun(evt') => /\ slept' = retry_delay
                           /\ retry_delay' = Min(2 * retry_delay, 3600)
       /\ LeftRun(evt') /\ Ponged(evt, sent) => slept' = 1
      ]_vars

\* a PING was handled on a connection made after three failures
C8_Witness ==
    /\ Ponged(evt, sent)
    /\ evt.delay = 8
    /\ retry_delay = 1

\* p is the beginning of s, character by character
IsPrefix(p, s) == Len(p) <= Len(s) /\ \A k \in 1..Len(p) : p[k] = s[k]

\* the word of a chat line after the one-character command prefix
Candidate(line) == [k \in 1..(Len(line.trailing[1]) - 1) |-> line.trailing[1][k + 1]]

\* the registry positions of the names the word is the beginning of
Matching(line) == {i \in 1..7 : IsPrefix(Candidate(line), commands[i])}

\* the names at the positions M of the registry, in its order, each with ","
Listed(M) ==
    [r \in 1..Cardinality(M) |->
        <<",">> \o commands[CHOOSE i \in M : Cardinality({j \in M : j < i}) = r - 1]]

\* the last step handled a chat line that went to the router
Routed(e) == e.kind = "line" /\ e.line.cmd = PRIVMSG

PublicOnly == {begin, cancel, delete}
HasBlocked(line) ==
    \E k \in 2..Len(line.trailing) : line.trailing[k] = <<"s", "p", "a", "m">>

\* C9: a word that begins exactly one command name selects that command; a
\* word that begins none is answered with the error that lists all
\* commands, a word that begins two or more with the error that lists
\* exactly those, and in both cases no action runs.
C9_Resolution ==
    [][Routed(evt') =>
        LET M == Matching(evt'.line)
            none == /\ timebox' = timebox
                    /\ evt'.ran = <<>>
                    /\ OneReply(sent', evt', "Error: ")
        IN  /\ M = {} =>
                /\ none
                /\ ~evt'.failed =>
                    /\ sent'[1].text.head =
                            "Unrecognized command.  Available commands: "
                    /\ sent'[1].text.arg = Listed(1..7)
            /\ Cardinality(M) >= 2 =>
                /\ none
                /\ ~evt'.failed =>
                    /\ sent'[1].text.head =
                            "Ambiguous command.  Matching commands: "
                    /\ sent'[1].text.arg = Listed(M)
            /\ Cardinality(M) = 1 =>
                LET c == commands[CHOOSE i \in M : TRUE]
                    refused == (evt'.line.middle = nick /\ c \in PublicOnly)
                               \/ HasBlocked(evt'.line)
                IN  IF refused THEN none ELSE evt'.ran = <<c>>
      ]_vars

\* ",d" in the channel has run delete on a person's completed timebox
C9_Witness ==
    /\ Called(evt, delete)
    /\ evt.line.trailing[1] = <<",", "d">>
    /\ Len(sent) = 1
    /\ sent[1].text.head = "Deleted the last completed timebox: "

\* C10: an action runs only in a context its command allows and with no
\* parameter equal to a blocked word: begin, cancel and delete in private,
\* and any command with such a parameter, get one error reply and leave
\* the store as it is; help, list, running and time run in both contexts.
C10_Policy ==
    [][Routed(evt') /\ Cardinality(Matching(evt'.line)) = 1 =>
        LET c == commands[CHOOSE i \in Matching(evt'.line) : TRUE]
            private == evt'.line.middle = nick
            refused(text) ==
                /\ timebox' = timebox
                /\ evt'.ran = <<>>
                /\ OneReply(sent', evt', "Error: ")
                /\ ~evt'.failed => sent'[1].text.head = text
        IN  /\ evt'.ran # <<>> =>
                /\ evt'.ran = <<c>>
                /\ private => c \notin PublicOnly
                /\ ~HasBlocked(evt'.line)
            /\ private /\ c \in PublicOnly =>
                refused("This command must be sent in channel.")
            /\ HasBlocked(evt'.line) /\ ~(private /\ c \in PublicOnly) =>
                refused("Parameters contain blocked word.")
            /\ c \notin PublicOnly /\ ~HasBlocked(evt'.line) => evt'.ran = <<c>>
      ]_vars

\* a Settled person's ",begin" in private was refused
C10_Witness ==
    /\ Routed(evt)
    /\ evt.line.middle = nick
    /\ evt.line.trailing = <<prefix \o begin, n15, task>>
    /\ evt.ran = <<>>
    /\ Settled(timebox, evt.line.sender)
    /\ Len(sent) = 1
    /\ sent[1].text.head = "This command must be sent in channel."

\* C11: the first reply of a command goes out with no delay before it, and
\* between every two consecutive replies of one command the router sleeps
\* 1 time unit. waits[i] is the sleep between reply i and reply i + 1.
C11_Throttle ==
    evt.kind = "line" /\ evt.ran # <<>> =>
        \A i \in DOMAIN sent : i + 1 \in DOMAIN sent => evt.waits[i] = 1

\* C12: a failure raised while a command is processed, by its action or by
\* the sending of a reply, does not end the connection cycle: the delay is
\* as it was and main() does not sleep; the same iteration then runs
\* _complete_timeboxes, _clean_timeboxes and _write_state, all three, and
\* when the state file was written the loop goes on to the next line with
\* the delay unchanged.
C12_ActionFailureCaught ==
    [][/\ Routed(evt') /\ evt'.failed =>
            /\ pc' = "tick"
            /\ retry_delay' = retry_delay
            /\ fails' = fails
            /\ slept' = slept
            /\ now' = now + Sum(evt'.waits)
       /\ Routed(evt) /\ evt.failed =>
            /\ evt'.kind \in {"tick", "write"}
            /\ evt'.steps = <<"complete", "clean", "write">>
            /\ evt'.kind = "tick" => pc' = "recv" /\ retry_delay' = retry_delay
      ]_vars

\* C13: no content of a received line ends the connection cycle: a step
\* that was given a line leaves _run() only when the socket raised on the
\* PONG it had to send.
C13_NoLineEndsCycle ==
    [][evt'.kind = "line" /\ pc' = "start" =>
            evt'.line.form = "message" /\ evt'.line.cmd = PING]_vars

\* the store after the tasks of an iteration that announced `out`
\* completions and then failed on the next one, or did not fail
AfterTasks(tb, t, failed, out) ==
    IF failed THEN complete_timeboxes(tb, t, out + 1).state
    ELSE clean_timeboxes(complete_timeboxes(tb, t, 0).state, t)

\* C14: an error of _write_state leaves _run(): main() sleeps the delay it
\* finds, doubles it up to the cap and calls _run() again, as after a
\* socket error, and the store in memory is the one the tasks of that
\* iteration left.
C14_WriteFailure ==
    [][evt'.kind = "write" =>
        /\ pc = "tick" /\ pc' = "start"
        /\ slept' = retry_delay
        /\ retry_delay' = Min(2 * retry_delay, 3600)
        /\ fails' = fails + 1
        /\ now' >= now + retry_delay
        /\ timebox' = AfterTasks(timebox, now, evt'.failed, Len(sent'))
        /\ Called(evt, begin) /\ sent # <<>>
           /\ sent[1].text.head = "Started timebox: "
                => Running(timebox', evt.line.sender)
      ]_vars

\* the write failed in the iteration whose tick completed a timebox: the
\* record is completed in memory and main() has slept
C14_Witness ==
    /\ evt.kind = "write"
    /\ pc = "start"
    /\ slept = 1
    /\ retry_delay = 2
    /\ Len(sent) = 1 /\ sent[1].text.head = "Completed timebox: "
    /\ \E p \in Persons : Settled(timebox, p)

\* the ledger with its last record completed
Flipped(ledger) ==
    IF ledger = <<>> THEN ledger
    ELSE [ledger EXCEPT ![Len(ledger)].completed = TRUE]

\* the records of the ledger at the positions keep, in their order
Kept(ledger, keep) ==
    [r \in 1..Cardinality(keep) |->
        ledger[CHOOSE k \in keep : Cardinality({j \in keep : j < k}) = r - 1]]

\* C15: the store changes only so: a begin that is not refused (here: of 15
\* minutes, with a summary, by a person who is not Running) appends one
\* Running record to the sender's ledger; a cancel or delete that is not
\* refused removes the last record of the sender's ledger, and the sender
\* with it when none is left; a tick completes last records and drops
\* records. Every other step - help, list, running, time, a refused,
\* unrecognized or ambiguous command, a PING, a failure, a reconnect -
\* leaves the store as it is, and no command changes another person's
\* ledger.
C15_Frame ==
    [][LET who == evt'.line.sender
           old == LedgerOf(timebox, who)
           new == LedgerOf(timebox', who)
           others == \A p \in Persons \ {who} :
                        LedgerOf(timebox', p) = LedgerOf(timebox, p)
       IN
       /\ \A i \in DOMAIN timebox' : timebox'[i].val # <<>>
       /\ evt'.kind = "line" =>
            IF Called(evt', begin) /\ ~Running(timebox, who)
               /\ Len(evt'.line.trailing) > 2
               /\ evt'.line.trailing[2] = n15
            THEN /\ Len(new) = Len(old) + 1
                 /\ Front(new) = old
                 /\ ~Last(new).completed
                 /\ Last(new).person = who
                 /\ Last(new).start = now
                 /\ others
            ELSE IF \/ Called(evt', cancel) /\ Running(timebox, who)
                    \/ Called(evt', delete) /\ Settled(timebox, who)
            THEN /\ new = Front(old)
                 /\ others
            ELSE timebox' = timebox
       /\ evt'.kind \in {"tick", "write"} =>
            /\ \A i \in DOMAIN timebox' : Has(timebox, timebox'[i].key)
            /\ \A p \in Persons :
                LET before == LedgerOf(timebox, p)
                    after == LedgerOf(timebox', p)
                IN  \E keep \in SUBSET DOMAIN before :
                        \/ after = Kept(before, keep)
                        \/ after = Kept(Flipped(before), keep)
       /\ evt'.kind \notin {"line", "tick", "write"} => timebox' = timebox
      ]_vars

\* a cancel has taken the Running record off a ledger of two, beside
\* another person's Running record
C15_Witness ==
    /\ Called(evt, cancel)
    /\ evt.line.sender = alice
    /\ Len(LedgerOf(timebox, alice)) = 1
    /\ Settled(timebox, alice)
    /\ Running(timebox, bob)
    /\ Len(sent) = 1 /\ sent[1].text.head = "Cancelled running timebox: "

\* C16: every iteration of the loop that does not end the connection cycle
\* calls, after the handling of its line, _complete_timeboxes, then
\* _clean_timeboxes, then _write_state, each once and none skipped.
C16_NoStepSkipped ==
    evt.kind = "tick" => evt.steps = <<"complete", "clean", "write">>

\* C19: in every ledger the starts do not decrease from one record to the
\* next, so the last record is the one started last, and what a cleanup
\* leaves of a ledger is an end piece of it: records go from the front only.
C19_Chronological ==
    /\ [](\A i \in DOMAIN timebox :
            LET ledger == timebox[i].val IN
            /\ \A k \in 1..(Len(ledger) - 1) :
                    ledger[k].start <= ledger[k + 1].start
            /\ \A k \in DOMAIN ledger : ledger[k].start <= Last(ledger).start)
    /\ [][evt'.kind \in {"tick", "write"} =>
            \A i \in DOMAIN timebox :
                LET before == timebox[i].val
                    after == LedgerOf(timebox', timebox[i].key)
                    cut == Len(before) - Len(after)
                IN  /\ Len(after) <= Len(before)
                    /\ \/ after = SubSeq(before, cut + 1, Len(before))
                       \/ after = SubSeq(Flipped(before), cut + 1, Len(before))
                    /\ \A k \in 1..cut :
                            \/ now > before[k].start + 48 * 3600
                            \/ Len(before) - k >= 10
      ]_vars

\* a tick past the 48 hours of the first record has dropped it and kept
\* the one started a quarter of an hour later
C19_Witness ==
    /\ evt.kind = "tick"
    /\ evt.dropped = 1
    /\ now = 48 * 3600 + 900
    /\ Len(LedgerOf(timebox, alice)) >= 1
    /\ LedgerOf(timebox, alice)[1].start = 900

\* C20: every record has the person who sent its begin and, as reply_to, the
\* channel that begin was sent to, never the nick of the bot; so every
\* completion goes to a channel, and a running sent in private lists only
\* records whose reply_to is the nick of its sender.
C20_ReplyTo ==
    /\ [](\A i \in DOMAIN timebox : \A k \in DOMAIN timebox[i].val :
            /\ timebox[i].val[k].person = timebox[i].key
            /\ timebox[i].val[k].reply_to \in {Channel, Lounge}
            /\ timebox[i].val[k].reply_to # nick)
    /\ [][LET who == evt'.line.sender
              new == LedgerOf(timebox', who)
          IN
          /\ Called(evt', begin) /\ timebox' # timebox =>
                /\ new[Len(new)].person = who
                /\ new[Len(new)].reply_to = evt'.line.middle
          /\ evt'.kind \in {"tick", "write"} =>
                \A k \in DOMAIN sent' :
                    /\ sent'[k].to \in {Channel, Lounge}
                    /\ \E p \in Persons :
                        /\ Running(timebox, p)
                        /\ sent'[k].text.arg[1].person = p
                        /\ sent'[k].to =
                            LedgerOf(timebox, p)[Len(LedgerOf(timebox, p))].reply_to
          /\ Called(evt', running) /\ evt'.line.middle = nick =>
                \A k \in DOMAIN sent' :
                    /\ sent'[k].to = who
                    /\ sent'[k].text.head = "" =>
                        \E p \in Persons :
                            /\ Running(timebox, p)
                            /\ sent'[k].text.arg[1].person = p
                            /\ LedgerOf(timebox, p)[Len(LedgerOf(timebox, p))].reply_to
                                    = who
         ]_vars

\* a person with a record of each channel, the later one Running, while a
\* completion goes to the other person's channel
C20_Witness ==
    /\ evt.kind = "tick"
    /\ Len(sent) = 1 /\ sent[1].to = Lounge
    /\ sent[1].text.arg[1].person = bob
    /\ Len(LedgerOf(timebox, alice)) = 2
    /\ LedgerOf(timebox, alice)[1].reply_to = Channel
    /\ LedgerOf(timebox, alice)[2].reply_to = Lounge
    /\ Running(timebox, alice)

\* C17: while the process keeps running and time passes, every Running
\* record stops being Running: it is cancelled or it is completed, also
\* when its deadline passes while the client is disconnected and when the
\* tick is cut short by a failure to announce another person's completion.
C17_EveryTimeboxEnds ==
    \A p \in Persons :
        (pc # "exit" /\ Running(timebox, p)) ~> ~Running(timebox, p)

\* after a reconnect, a tick has completed the second of two timeboxes that
\* were due together: the first was completed by an earlier tick, which the
\* failure to announce it cut short
C17_Witness ==
    /\ evt.kind = "tick"
    /\ fails = 1
    /\ Len(sent) = 1
    /\ sent[1].text.arg[1].person = bob
    /\ Settled(timebox, alice)
    /\ Settled(timebox, bob)
    /\ LedgerOf(timebox, alice)[1].start = LedgerOf(timebox, bob)[1].start
    /\ timebox[1].key = alice

\* C18: the lines yielded are the CR-LF-terminated pieces of the bytes read
\* on this connection, in order and once each, however the bytes were cut
\* into reads, and the buffer holds the text after the last CR-LF.
C18_ChunkIndependent ==
    LET read == SubSeq(wire.whole, wire.from + 1, wire.pos)
        pieces == split_crlf(decode(read))
    IN  /\ wire.yielded \o wire.pending = Front(pieces)
        /\ wire.buffer = Last(pieces)

====
